---- MODULE Spec2Model ----
(***************************************************************************)
(* A model of scadr: the ray caster, the outline and silhouette            *)
(* detectors, the orthographic camera, the 2x2 compositor, the STL         *)
(* decoders, the selection of the modules to render and the main routine   *)
(* of the command line.                                                    *)
(*                                                                         *)
(* Numbers.  The source computes in IEEE doubles.  The model draws every   *)
(* coordinate from the integers and keeps each quotient the source forms   *)
(* (f = 1/a, u, v, t) as an exact fraction num/den with den > 0, so every  *)
(* comparison of the source is decided by cross-multiplication.  Decimal   *)
(* thresholds (0.00001, 0.001, 0.1, 0.8) are kept as fractions too.        *)
(***************************************************************************)
EXTENDS Integers, Sequences, FiniteSets, TLC

VARIABLES
    \* castRay (raytracer): the ray, scene.triangles, the loop position,
    \* closestHit and the control point
    cr_ray, cr_triangles, cr_i, cr_closestHit, cr_pc,
    \* detectOutline (outlineView.ts): scene.triangles, the pixel, the centre
    \* hit, the position in the neighbors array, the returned OutlineResult
    \* and the control point
    do_triangles, do_pixel, do_hit, do_n, do_result, do_pc,
    \* detectSilhouette (outlineView.ts): the triangles, the view direction,
    \* the edges map in insertion order, the positions of the two forEach
    \* loops, the isSilhouette array and the control point
    ds_triangles, ds_viewDirection, ds_edges, ds_t, ds_e, ds_isSilhouette, ds_pc,
    \* generateMultiview (multiview): the arguments and the file found at
    \* options.outputPath; the values computed before the view loop; the
    \* canvas; the view loop index and its camera; renderView's imageData and
    \* sample position; the encoded buffer; the file at options.outputPath;
    \* the control point
    mv_input, mv_setup, mv_canvas, mv_i, mv_camera, mv_data, mv_xy, mv_buffer,
    mv_file, mv_pc,
    \* parseSTL, parseASCIISTL and parseBinarySTL (stl.ts): the buffer, offset,
    \* numTriangles, the loop index, the triangles array and the control
    \* point; the lines of the text parser; the parsers that have been called
    st_buffer, st_offset, st_numTriangles, st_i, st_triangles, st_pc,
    st_lines, st_called,
    \* getPartsToRender (modules.ts): the content of the file at filePath,
    \* options.convention, the returned list and the control point
    gp_fileContent, gp_convention, gp_result, gp_pc,
    \* asyncMain (modules.ts): the options and the content of the file at
    \* filePath; tempDir; parts; taskStatus; the parts whose processModule
    \* promise is pending; dotCount; the number of armed timers and whether
    \* the timer of timeoutToken is one of them; the status lines on the
    \* terminal; the other lines printed; the calls of processModule and
    \* createZipFile; what has been created in the file system; the parts
    \* whose promise was rejected; the number of calls of done(); ctx.stlFiles;
    \* the entries handed to the archive; the control point
    am_options, am_fileContent, am_tempDir, am_parts, am_taskStatus, am_pending,
    am_dotCount, am_armed, am_tokenArmed, am_status, am_out, am_calls, am_fs,
    am_rejected, am_doneCalls, am_stlFiles, am_archive, am_pc,
    \* getRayForPixel (orthographicCamera.ts): the camera, the image size, and
    \* the pixels and rays of the last two calls, the latest first
    cam_camera, cam_image, cam_rays,
    \* renderView (multiview): the tile's width and height, the sample
    \* position, the data of imageData, how often each pixel has been
    \* written, the pixel indices written beyond the data, the control point
    rv_size, rv_xy, rv_data, rv_count, rv_outside, rv_pc,
    \* intersectRayTriangle on a ray aimed at a centroid: the unit of the
    \* coordinates, the triangle, the ray, the value returned, the control
    \* point
    ct_unit, ct_triangle, ct_ray, ct_hit, ct_pc,
    \* findOpenScad (modules.ts): process.env, the paths that fs.stat finds,
    \* candidateRoots, the loop position, the path returned, what was printed
    \* on the error stream, the control point
    fo_env, fo_stat, fo_candidateRoots, fo_i, fo_result, fo_err, fo_pc

rayVars == <<cr_ray, cr_triangles, cr_i, cr_closestHit, cr_pc>>

outVars == <<do_triangles, do_pixel, do_hit, do_n, do_result, do_pc>>

silVars == <<ds_triangles, ds_viewDirection, ds_edges, ds_t, ds_e, ds_isSilhouette, ds_pc>>

mvVars == <<mv_input, mv_setup, mv_canvas, mv_i, mv_camera, mv_data, mv_xy, mv_buffer,
            mv_file, mv_pc>>

stlVars == <<st_buffer, st_offset, st_numTriangles, st_i, st_triangles, st_pc,
             st_lines, st_called>>

partsVars == <<gp_fileContent, gp_convention, gp_result, gp_pc>>

mainVars == <<am_options, am_fileContent, am_tempDir, am_parts, am_taskStatus,
              am_pending, am_dotCount, am_armed, am_tokenArmed, am_status, am_out,
              am_calls, am_fs, am_rejected, am_doneCalls, am_stlFiles, am_archive,
              am_pc>>

camVars == <<cam_camera, cam_image, cam_rays>>

viewVars == <<rv_size, rv_xy, rv_data, rv_count, rv_outside, rv_pc>>

centroidVars == <<ct_unit, ct_triangle, ct_ray, ct_hit, ct_pc>>

findVars == <<fo_env, fo_stat, fo_candidateRoots, fo_i, fo_result, fo_err, fo_pc>>

vars == <<rayVars, outVars, silVars, mvVars, stlVars, partsVars, mainVars, camVars,
         viewVars, centroidVars, findVars>>

\* What each component leaves alone: the state of the others.
notRay == <<outVars, silVars, mvVars, stlVars, partsVars, mainVars, camVars,
            viewVars, centroidVars, findVars>>
notOut == <<rayVars, silVars, mvVars, stlVars, partsVars, mainVars, camVars,
            viewVars, centroidVars, findVars>>
notSil == <<rayVars, outVars, mvVars, stlVars, partsVars, mainVars, camVars,
            viewVars, centroidVars, findVars>>
notMv == <<rayVars, outVars, silVars, stlVars, partsVars, mainVars, camVars,
           viewVars, centroidVars, findVars>>
notStl == <<rayVars, outVars, silVars, mvVars, partsVars, mainVars, camVars,
            viewVars, centroidVars, findVars>>
notParts == <<rayVars, outVars, silVars, mvVars, stlVars, mainVars, camVars,
              viewVars, centroidVars, findVars>>
notMain == <<rayVars, outVars, silVars, mvVars, stlVars, partsVars, camVars,
             viewVars, centroidVars, findVars>>
notCam == <<rayVars, outVars, silVars, mvVars, stlVars, partsVars, mainVars,
            viewVars, centroidVars, findVars>>
notView == <<rayVars, outVars, silVars, mvVars, stlVars, partsVars, mainVars,
             camVars, centroidVars, findVars>>
notCentroid == <<rayVars, outVars, silVars, mvVars, stlVars, partsVars, mainVars,
                 camVars, viewVars, findVars>>
notFind == <<rayVars, outVars, silVars, mvVars, stlVars, partsVars, mainVars,
             camVars, viewVars, centroidVars>>

\* The components that a specification does not run stay idle.
IdleRay ==
    /\ cr_ray = <<>> /\ cr_triangles = <<>> /\ cr_i = 0
    /\ cr_closestHit = <<>> /\ cr_pc = "idle"

IdleOut ==
    /\ do_triangles = <<>> /\ do_pixel = <<>> /\ do_hit = <<>>
    /\ do_n = 0 /\ do_result = <<>> /\ do_pc = "idle"

IdleSil ==
    /\ ds_triangles = <<>> /\ ds_viewDirection = <<>> /\ ds_edges = <<>>
    /\ ds_t = 0 /\ ds_e = 0 /\ ds_isSilhouette = <<>> /\ ds_pc = "idle"

IdleMv ==
    /\ mv_input = <<>> /\ mv_setup = <<>> /\ mv_canvas = <<>> /\ mv_i = 0
    /\ mv_camera = <<>> /\ mv_data = <<>> /\ mv_xy = <<>> /\ mv_buffer = <<>>
    /\ mv_file = <<>> /\ mv_pc = "idle"

IdleStl ==
    /\ st_buffer = <<>> /\ st_offset = 0 /\ st_numTriangles = 0 /\ st_i = 0
    /\ st_triangles = <<>> /\ st_pc = "idle"
    /\ st_lines = <<>> /\ st_called = <<>>

IdleParts ==
    /\ gp_fileContent = <<>> /\ gp_convention = "" /\ gp_result = <<>>
    /\ gp_pc = "idle"

IdleMain ==
    /\ am_options = <<>> /\ am_fileContent = <<>> /\ am_tempDir = <<>>
    /\ am_parts = <<>> /\ am_taskStatus = <<>> /\ am_pending = {}
    /\ am_dotCount = 0 /\ am_armed = 0 /\ am_tokenArmed = FALSE
    /\ am_status = <<>> /\ am_out = <<>> /\ am_calls = <<>> /\ am_fs = {}
    /\ am_rejected = {} /\ am_doneCalls = 0 /\ am_stlFiles = <<>>
    /\ am_archive = <<>> /\ am_pc = "idle"

IdleCam == cam_camera = <<>> /\ cam_image = <<>> /\ cam_rays = <<>>

IdleView ==
    /\ rv_size = <<>> /\ rv_xy = <<>> /\ rv_data = <<>> /\ rv_count = <<>>
    /\ rv_outside = {} /\ rv_pc = "idle"

IdleCentroid ==
    /\ ct_unit = 0 /\ ct_triangle = <<>> /\ ct_ray = <<>> /\ ct_hit = <<>> /\ ct_pc = "idle"

IdleFind ==
    /\ fo_env = <<>> /\ fo_stat = {} /\ fo_candidateRoots = <<>> /\ fo_i = 0
    /\ fo_result = <<>> /\ fo_err = <<>> /\ fo_pc = "idle"

-----------------------------------------------------------------------------
(* Vector math utilities (orthographicCamera.ts) *)

Vec(x, y, z) == [x |-> x, y |-> y, z |-> z]

add(a, b) == Vec(a.x + b.x, a.y + b.y, a.z + b.z)

subtract(a, b) == Vec(a.x - b.x, a.y - b.y, a.z - b.z)

multiply(v, scalar) == Vec(v.x * scalar, v.y * scalar, v.z * scalar)

dot(a, b) == a.x * b.x + a.y * b.y + a.z * b.z

cross(a, b) ==
    Vec(a.y * b.z - a.z * b.y,
        a.z * b.x - a.x * b.z,
        a.x * b.y - a.y * b.x)

Min2(a, b) == IF a < b THEN a ELSE b
Max2(a, b) == IF a > b THEN a ELSE b
Min3(a, b, c) == Min2(a, Min2(b, c))
Max3(a, b, c) == Max2(a, Max2(b, c))
Abs(a) == IF a < 0 THEN -a ELSE a

\* Fractions n/d with d > 0.
Frac(n, d) == [num |-> n, den |-> d]
FracLt(p, q) == p.num * q.den < q.num * p.den
FracEq(p, q) == p.num * q.den = q.num * p.den

-----------------------------------------------------------------------------
(* Ray-triangle intersection (raytracer) *)

null == [kind |-> "null"]

\* The decimal literals of the source, as fractions.
ParallelEpsilon == Frac(1, 100000)      \* 0.00001
EarlyExitDistance == Frac(1, 1000)      \* 0.001

VertexVec(v) == Vec(v[1], v[2], v[3])

\* Coordinates finer than whole numbers: the vertices and the ray's origin
\* are given in units of 1/unit (unit = 1000: thousandths), the direction in
\* whole numbers.  unit = 1 where it is not named.

\* The check without its second test: every ray whose origin is more than 1
\* outside the bounds is rejected, wherever it points.
BoundingBoxRejectsFar(unit, ray, triangle) ==
    LET v0 == VertexVec(triangle.vertices[1])
        v1 == VertexVec(triangle.vertices[2])
        v2 == VertexVec(triangle.vertices[3])
        o == ray.origin
    IN  \/ o.x < Min3(v0.x, v1.x, v2.x) - unit \/ o.x > Max3(v0.x, v1.x, v2.x) + unit
        \/ o.y < Min3(v0.y, v1.y, v2.y) - unit \/ o.y > Max3(v0.y, v1.y, v2.y) + unit
        \/ o.z < Min3(v0.z, v1.z, v2.z) - unit \/ o.z > Max3(v0.z, v1.z, v2.z) + unit

\* Lines 96-117: the quick bounding box check.  TRUE when the ray is rejected.
BoundingBoxRejectsIn(unit, ray, triangle) ==
    LET v0 == VertexVec(triangle.vertices[1])
        v1 == VertexVec(triangle.vertices[2])
        v2 == VertexVec(triangle.vertices[3])
        minX == Min3(v0.x, v1.x, v2.x)
        maxX == Max3(v0.x, v1.x, v2.x)
        minY == Min3(v0.y, v1.y, v2.y)
        maxY == Max3(v0.y, v1.y, v2.y)
        minZ == Min3(v0.z, v1.z, v2.z)
        maxZ == Max3(v0.z, v1.z, v2.z)
        o == ray.origin
        d == ray.direction
    IN  /\ \/ o.x < minX - unit \/ o.x > maxX + unit
           \/ o.y < minY - unit \/ o.y > maxY + unit
           \/ o.z < minZ - unit \/ o.z > maxZ + unit
        /\ \/ (d.x > 0 /\ o.x > maxX)
           \/ (d.x < 0 /\ o.x < minX)
           \/ (d.y > 0 /\ o.y > maxY)
           \/ (d.y < 0 /\ o.y < minY)
           \/ (d.z > 0 /\ o.z > maxZ)
           \/ (d.z < 0 /\ o.z < minZ)

BoundingBoxRejects(ray, triangle) == BoundingBoxRejectsIn(1, ray, triangle)

\* Lines 119-163: Moller-Trumbore.  f = 1/a is never formed: u = U/a, v = V/a
\* and t = T/a are compared through the sign of a.  In units of 1/unit the
\* determinant a, and U and V, are a, U, V / unit^2 and t is T / (a * unit).
MollerTrumboreIn(unit, ray, triangle) ==
    LET v0 == VertexVec(triangle.vertices[1])
        v1 == VertexVec(triangle.vertices[2])
        v2 == VertexVec(triangle.vertices[3])
        edge1 == subtract(v1, v0)
        edge2 == subtract(v2, v0)
        h == cross(ray.direction, edge2)
        a == dot(edge1, h)
        s == subtract(ray.origin, v0)
        q == cross(s, edge1)
        sgn == IF a < 0 THEN -1 ELSE 1
        den == sgn * a
        U == sgn * dot(s, h)
        V == sgn * dot(ray.direction, q)
        T == sgn * dot(edge2, q)
    IN  IF a * ParallelEpsilon.den > -ParallelEpsilon.num * unit * unit
           /\ a * ParallelEpsilon.den < ParallelEpsilon.num * unit * unit
        THEN null
        ELSE IF U < 0 \/ U > den
        THEN null
        ELSE IF V < 0 \/ U + V > den
        THEN null
        ELSE IF FracLt(ParallelEpsilon, Frac(T, den * unit))
        THEN [kind |-> "hit",
              \* point = origin + direction * t, over the denominator of t
              point |-> add(multiply(ray.origin, den), multiply(ray.direction, T)),
              \* normalize(triangle.normal) is applied where normals are compared
              normal |-> VertexVec(triangle.normal),
              distance |-> Frac(T, den * unit),
              material |-> "green"]
        ELSE null

MollerTrumbore(ray, triangle) == MollerTrumboreIn(1, ray, triangle)

intersectRayTriangleIn(unit, ray, triangle) ==
    IF BoundingBoxRejectsIn(unit, ray, triangle)
    THEN null
    ELSE MollerTrumboreIn(unit, ray, triangle)

intersectRayTriangle(ray, triangle) == intersectRayTriangleIn(1, ray, triangle)

-----------------------------------------------------------------------------
(* castRay (raytracer, lines 42-64) *)

\* A scan that keeps the first hit it finds, whatever its distance.
CloserMutant(hit, closestHit) ==
    /\ hit # null
    /\ closestHit = null

\* Line 49: hit && hit.distance < closestDistance, closestDistance = Infinity
\* while closestHit is null.
Closer(hit, closestHit) ==
    /\ hit # null
    /\ (closestHit = null \/ FracLt(hit.distance, closestHit.distance))

\* An early termination with a threshold of 2 instead of 0.001.
EarlyExitMutant(hit) == FracLt(hit.distance, Frac(2, 1))

\* Line 54: early termination for very close hits.
EarlyExit(hit) == FracLt(hit.distance, EarlyExitDistance)

\* The whole scan as a function of its inputs, for the callers of castRay.
RECURSIVE castRayFrom(_, _, _, _)
castRayFrom(ray, triangles, i, closestHit) ==
    IF i > Len(triangles)
    THEN closestHit
    ELSE LET hit == intersectRayTriangle(ray, triangles[i])
         IN  IF Closer(hit, closestHit)
             THEN IF EarlyExit(hit)
                  THEN hit
                  ELSE castRayFrom(ray, triangles, i + 1, hit)
             ELSE castRayFrom(ray, triangles, i + 1, closestHit)

castRay(ray, triangles) == castRayFrom(ray, triangles, 1, null)

\* Inputs of the ray caster: small right triangles stacked over the origin
\* (one wound the other way), one off to the side, one parallel to the
\* vertical rays; rays of unit and of long direction vectors, the latter
\* giving distances around 0.001.
Tri(n, a, b, c) == [normal |-> n, vertices |-> <<a, b, c>>]

RayTriangles ==
    { Tri(<<0, 0, 1>>, <<0, 0, 0>>, <<2, 0, 0>>, <<0, 2, 0>>),
      Tri(<<0, 0, 1>>, <<0, 0, 1>>, <<0, 2, 1>>, <<2, 0, 1>>),
      Tri(<<0, 0, 1>>, <<0, 0, 2>>, <<2, 0, 2>>, <<0, 2, 2>>),
      Tri(<<0, 0, 1>>, <<4, 4, 0>>, <<6, 4, 0>>, <<4, 6, 0>>),
      Tri(<<0, 1, 0>>, <<0, 0, 0>>, <<2, 0, 0>>, <<0, 0, 2>>) }

RayOrigins == { Vec(1, 1, 3), Vec(0, 0, 3), Vec(2, 2, 3), Vec(1, 0, 5) }

\* The last direction, from (1, 1, 3), meets the edge that the first and the
\* last triangle share.
RayDirections ==
    { Vec(0, 0, -1), Vec(0, 0, -2000), Vec(0, 0, -4000), Vec(0, 0, 1), Vec(1, 0, -1),
      Vec(0, -1, -3) }

MaxTris == 3

SeqsUpTo(S, n) == UNION { [1..k -> S] : k \in 0..n }

InitRay ==
    /\ cr_ray \in [origin : RayOrigins, direction : RayDirections]
    /\ cr_triangles \in SeqsUpTo(RayTriangles, MaxTris)
    /\ cr_i = 1
    /\ cr_closestHit = null
    /\ cr_pc = "loop"
    /\ IdleOut /\ IdleSil /\ IdleMv /\ IdleStl /\ IdleParts /\ IdleMain /\ IdleCam
    /\ IdleView /\ IdleCentroid /\ IdleFind

\* One iteration of the for loop, the break included.
CastRayIter ==
    /\ cr_pc = "loop"
    /\ cr_i <= Len(cr_triangles)
    /\ LET hit == intersectRayTriangle(cr_ray, cr_triangles[cr_i])
       IN  IF Closer(hit, cr_closestHit)
           THEN /\ cr_closestHit' = hit
                /\ cr_pc' = IF EarlyExit(hit) THEN "break" ELSE "loop"
           ELSE /\ cr_closestHit' = cr_closestHit
                /\ cr_pc' = "loop"
    /\ cr_i' = cr_i + 1
    /\ UNCHANGED <<cr_ray, cr_triangles>>
    /\ UNCHANGED notRay

\* return closestHit, at the end of the list or after the break.
CastRayReturn ==
    /\ \/ cr_pc = "break"
       \/ cr_pc = "loop" /\ cr_i > Len(cr_triangles)
    /\ cr_pc' = "done"
    /\ UNCHANGED <<cr_ray, cr_triangles, cr_i, cr_closestHit>>
    /\ UNCHANGED notRay

NextRay == CastRayIter \/ CastRayReturn

SpecRay == InitRay /\ [][NextRay]_vars

\* The triangles of the scene that the ray intersects.
HitIndices(ray, triangles) ==
    { i \in 1..Len(triangles) : intersectRayTriangle(ray, triangles[i]) # null }

HitDistance(ray, triangles, i) == intersectRayTriangle(ray, triangles[i]).distance

NoVeryCloseHit(ray, triangles) ==
    \A i \in HitIndices(ray, triangles) :
        ~FracLt(HitDistance(ray, triangles, i), EarlyExitDistance)

\* C1: when no triangle of the scene is hit closer than 0.001, castRay
\* returns null iff the ray intersects no triangle, and otherwise a hit at
\* the minimum intersection distance over all the triangles of the scene.
C1_NearestHit ==
    (cr_pc = "done" /\ NoVeryCloseHit(cr_ray, cr_triangles)) =>
        LET hits == HitIndices(cr_ray, cr_triangles)
        IN  /\ (cr_closestHit = null) <=> (hits = {})
            /\ hits # {} =>
                /\ \A i \in hits :
                     ~FracLt(HitDistance(cr_ray, cr_triangles, i), cr_closestHit.distance)
                /\ \E i \in hits :
                     FracEq(HitDistance(cr_ray, cr_triangles, i), cr_closestHit.distance)

\* C1 witness: a finished scan in which a later triangle is strictly nearer
\* than an earlier one that is hit too, and no hit is closer than 0.001.
C1_Witness ==
    /\ cr_pc = "done"
    /\ NoVeryCloseHit(cr_ray, cr_triangles)
    /\ cr_closestHit # null
    /\ \E i, j \in HitIndices(cr_ray, cr_triangles) :
         /\ i < j
         /\ FracLt(HitDistance(cr_ray, cr_triangles, j), HitDistance(cr_ray, cr_triangles, i))

-----------------------------------------------------------------------------
(* Orthographic camera (orthographicCamera.ts) *)

\* Math.sqrt on the squares the model's cameras produce: the cameras of the
\* model look along an axis, so every length taken is a whole number.
length(v) ==
    CHOOSE r \in 0..(Abs(v.x) + Abs(v.y) + Abs(v.z)) : r * r = dot(v, v)

\* multiply(v, 1 / len): exact for the axis-aligned vectors of the model.
normalize(v) ==
    LET len == length(v)
    IN  IF len = 0
        THEN Vec(0, 0, 0)
        ELSE Vec(v.x \div len, v.y \div len, v.z \div len)

\* halfWidth = width / 2 * scale, scale a fraction; the extents are fractions.
createOrthographicCamera(position, target, up, width, height, scale) ==
    LET halfWidth == Frac(width * scale.num, 2 * scale.den)
        halfHeight == Frac(height * scale.num, 2 * scale.den)
    IN  [position |-> position, target |-> target, up |-> up,
         left |-> Frac(-halfWidth.num, halfWidth.den), right |-> halfWidth,
         bottom |-> Frac(-halfHeight.num, halfHeight.den), top |-> halfHeight,
         near |-> Frac(1, 10), far |-> Frac(1000, 1)]

\* lo + (pixel / size) * (hi - lo), lo and hi over the same denominator: a
\* whole number for the cameras the rays of the model are taken from.
PixelToWorld(lo, hi, pixel, size) ==
    (lo.num * size + pixel * (hi.num - lo.num)) \div (size * lo.den)

\* A camera whose rays all aim at the target from their origins.
getRayForPixelMutant(camera, pixelX, pixelY, imageWidth, imageHeight) ==
    LET worldX == PixelToWorld(camera.left, camera.right, pixelX, imageWidth)
        worldY == PixelToWorld(camera.bottom, camera.top, pixelY, imageHeight)
        forward == normalize(subtract(camera.target, camera.position))
        right == normalize(cross(forward, camera.up))
        up == cross(right, forward)
        rayOrigin == add(camera.position,
                         add(multiply(right, worldX), multiply(up, worldY)))
    IN  [origin |-> rayOrigin, direction |-> subtract(camera.target, rayOrigin)]

\* Lines 51-82.
getRayForPixel(camera, pixelX, pixelY, imageWidth, imageHeight) ==
    LET worldX == PixelToWorld(camera.left, camera.right, pixelX, imageWidth)
        worldY == PixelToWorld(camera.bottom, camera.top, pixelY, imageHeight)
        forward == normalize(subtract(camera.target, camera.position))
        right == normalize(cross(forward, camera.up))
        up == cross(right, forward)
    IN  [origin |-> add(camera.position,
                        add(multiply(right, worldX), multiply(up, worldY))),
         direction |-> forward]

-----------------------------------------------------------------------------
(* detectOutline (outlineView.ts, lines 13-68) *)

depthThreshold == Frac(1, 10)     \* 0.1
normalThreshold == Frac(4, 5)     \* 0.8

Infinity == Frac(1, 0)

\* Lines 29-34: right, left, down, up.
neighbors(pixelX, pixelY) ==
    << <<pixelX + 1, pixelY>>, <<pixelX - 1, pixelY>>,
       <<pixelX, pixelY + 1>>, <<pixelX, pixelY - 1>> >>

\* A detector without the bounds check: every neighbor is sampled.
InBoundsMutant(neighbor, imageWidth, imageHeight) == TRUE

\* Lines 41-42, negated: the neighbor is sampled.
InBounds(neighbor, imageWidth, imageHeight) ==
    ~(neighbor[1] < 0 \/ neighbor[1] >= imageWidth \/
      neighbor[2] < 0 \/ neighbor[2] >= imageHeight)

\* Math.abs(p - q) > threshold, on fractions.
AbsDiffGt(p, q, threshold) ==
    Abs(p.num * q.den - q.num * p.den) * threshold.den > threshold.num * p.den * q.den

AbsDiffLt(p, q, threshold) ==
    Abs(p.num * q.den - q.num * p.den) * threshold.den < threshold.num * p.den * q.den

\* dot(normalize(m), normalize(n)) < threshold and > threshold, threshold > 0.
\* The hit normals are normalize(triangle.normal) (raytracer, line 147): a
\* zero normal stays zero and the product is 0; otherwise the product is
\* d / sqrt(L) with d = m.n and L = (m.m)(n.n), compared through squares.
NormalSimilarityLt(m, n, threshold) ==
    LET d == dot(m, n)
        L == dot(m, m) * dot(n, n)
    IN  IF L = 0
        THEN 0 < threshold.num
        ELSE d < 0 \/ d * d * threshold.den * threshold.den < threshold.num * threshold.num * L

NormalSimilarityGt(m, n, threshold) ==
    LET d == dot(m, n)
        L == dot(m, m) * dot(n, n)
    IN  IF L = 0
        THEN FALSE
        ELSE d > 0 /\ d * d * threshold.den * threshold.den > threshold.num * threshold.num * L

\* A detector that passes over a neighbor whose ray misses.
NeighborTriggersMutant(hit, neighborHit) ==
    /\ neighborHit # null
    /\ \/ AbsDiffGt(hit.distance, neighborHit.distance, depthThreshold)
       \/ NormalSimilarityLt(hit.normal, neighborHit.normal, normalThreshold)

\* Lines 49-64: what one sampled neighbor decides.  TRUE: return an outline.
NeighborTriggers(hit, neighborHit) ==
    IF neighborHit = null
    THEN TRUE
    ELSE \/ AbsDiffGt(hit.distance, neighborHit.distance, depthThreshold)
         \/ NormalSimilarityLt(hit.normal, neighborHit.normal, normalThreshold)

\* The image and the camera the detector is driven with: a view straight
\* down the z axis, one pixel every two world units.
imageWidth == 4
imageHeight == 4

OutlineCamera ==
    createOrthographicCamera(Vec(0, 0, 10), Vec(0, 0, 0), Vec(0, 1, 0),
                             imageWidth, imageHeight, Frac(2, 1))

OutlineRay(x, y) == getRayForPixel(OutlineCamera, x, y, imageWidth, imageHeight)

\* Scenes: the two halves of a flat square; the second half again with a
\* normal at right angles, with a normal exactly 0.8 away, and raised by one
\* unit; two slopes over the whole image whose depth changes by 1/16 and by
\* 1/8 per pixel; a flat strip along the first rows of the image.
OutlineTriangles ==
    { Tri(<<0, 0, 1>>, <<-5, -5, 0>>, <<5, -5, 0>>, <<-5, 5, 0>>),
      Tri(<<0, 0, 1>>, <<5, 5, 0>>, <<-5, 5, 0>>, <<5, -5, 0>>),
      Tri(<<1, 0, 0>>, <<5, 5, 0>>, <<-5, 5, 0>>, <<5, -5, 0>>),
      Tri(<<0, 3, 4>>, <<5, 5, 0>>, <<-5, 5, 0>>, <<5, -5, 0>>),
      Tri(<<0, 0, 1>>, <<5, 5, 1>>, <<-5, 5, 1>>, <<5, -5, 1>>),
      Tri(<<0, 0, 2>>, <<-5, -5, 0>>, <<27, -5, 1>>, <<-5, 27, 0>>),
      Tri(<<0, 0, 1>>, <<-5, -5, 0>>, <<27, -5, 2>>, <<-5, 27, 0>>),
      Tri(<<0, 0, 1>>, <<-5, -5, 0>>, <<5, -5, 0>>, <<-5, -1, 0>>) }

MaxOutlineTris == 2

InitOutline ==
    /\ do_triangles \in SeqsUpTo(OutlineTriangles, MaxOutlineTris)
    /\ do_pixel \in (0..(imageWidth - 1)) \X (0..(imageHeight - 1))
    /\ do_hit = null
    /\ do_n = 0
    /\ do_result = <<>>
    /\ do_pc = "start"
    /\ IdleRay /\ IdleSil /\ IdleMv /\ IdleStl /\ IdleParts /\ IdleMain /\ IdleCam
    /\ IdleView /\ IdleCentroid /\ IdleFind

\* Lines 22-26: cast the centre ray; a miss returns at once.
DetectOutlineCentre ==
    /\ do_pc = "start"
    /\ LET hit == castRay(OutlineRay(do_pixel[1], do_pixel[2]), do_triangles)
       IN  /\ do_hit' = hit
           /\ IF hit = null
              THEN /\ do_result' = [isOutline |-> FALSE, depth |-> Infinity]
                   /\ do_pc' = "done"
                   /\ do_n' = do_n
              ELSE /\ do_result' = do_result
                   /\ do_pc' = "loop"
                   /\ do_n' = 1
    /\ UNCHANGED <<do_triangles, do_pixel>>
    /\ UNCHANGED notOut

\* Lines 39-65: one iteration of the loop over the neighbors.
DetectOutlineNeighbor ==
    /\ do_pc = "loop"
    /\ do_n <= 4
    /\ LET neighbor == neighbors(do_pixel[1], do_pixel[2])[do_n]
       IN  IF ~InBounds(neighbor, imageWidth, imageHeight)
           THEN /\ do_n' = do_n + 1
                /\ UNCHANGED <<do_result, do_pc>>
           ELSE LET neighborHit == castRay(OutlineRay(neighbor[1], neighbor[2]), do_triangles)
                IN  IF NeighborTriggers(do_hit, neighborHit)
                    THEN /\ do_result' = [isOutline |-> TRUE, depth |-> do_hit.distance]
                         /\ do_pc' = "done"
                         /\ do_n' = do_n
                    ELSE /\ do_n' = do_n + 1
                         /\ UNCHANGED <<do_result, do_pc>>
    /\ UNCHANGED <<do_triangles, do_pixel, do_hit>>
    /\ UNCHANGED notOut

\* Line 67: no neighbor triggered.
DetectOutlineReturn ==
    /\ do_pc = "loop"
    /\ do_n > 4
    /\ do_result' = [isOutline |-> FALSE, depth |-> do_hit.distance]
    /\ do_pc' = "done"
    /\ UNCHANGED <<do_triangles, do_pixel, do_hit, do_n>>
    /\ UNCHANGED notOut

NextOutline == DetectOutlineCentre \/ DetectOutlineNeighbor \/ DetectOutlineReturn

SpecOutline == InitOutline /\ [][NextOutline]_vars

\* What the rays through a pixel and through its 4-connected neighbours hit.
PixelHit(p) == castRay(OutlineRay(p[1], p[2]), do_triangles)

InImage(p) == p[1] \in 0..(imageWidth - 1) /\ p[2] \in 0..(imageHeight - 1)

Neighbours4(p) ==
    { q \in { <<p[1] + 1, p[2]>>, <<p[1] - 1, p[2]>>,
              <<p[1], p[2] + 1>>, <<p[1], p[2] - 1>> } : InImage(q) }

\* C2: a pixel whose centre ray hits and that has an in-bounds 4-connected
\* neighbour whose ray misses the scene is reported as an outline.
C2_BackgroundNeighbourFlagged ==
    (/\ do_pc = "done"
     /\ PixelHit(do_pixel) # null
     /\ \E q \in Neighbours4(do_pixel) : PixelHit(q) = null)
        => do_result.isOutline = TRUE

\* C2 witness: the missing neighbour is not the first one examined, and the
\* neighbours examined before it hit the same flat surface as the centre.
C2_Witness ==
    /\ do_pc = "done"
    /\ PixelHit(do_pixel) # null
    /\ do_n >= 3
    /\ do_result.isOutline = TRUE
    /\ PixelHit(neighbors(do_pixel[1], do_pixel[2])[do_n]) = null
    /\ InImage(neighbors(do_pixel[1], do_pixel[2])[1])

\* C3: a pixel whose centre ray hits and whose in-bounds neighbours all hit
\* within 0.1 of the centre depth, with normals more than 0.8 similar, is
\* not an outline and its depth is the centre hit distance; neighbours
\* outside the image play no part.
SameSurface(hit, neighborHit) ==
    /\ neighborHit # null
    /\ AbsDiffLt(hit.distance, neighborHit.distance, depthThreshold)
    /\ NormalSimilarityGt(hit.normal, neighborHit.normal, normalThreshold)

C3_FlatSurfaceNotFlagged ==
    (/\ do_pc = "done"
     /\ PixelHit(do_pixel) # null
     /\ \A q \in Neighbours4(do_pixel) : SameSurface(PixelHit(do_pixel), PixelHit(q)))
        => do_result = [isOutline |-> FALSE, depth |-> PixelHit(do_pixel).distance]

\* C3 witness: a corner pixel (two neighbours outside the image, whose rays
\* would miss) on a slope: the neighbours inside differ in depth, by less
\* than 0.1.
C3_Witness ==
    /\ do_pc = "done"
    /\ do_pixel = <<0, 0>>
    /\ PixelHit(do_pixel) # null
    /\ castRay(OutlineRay(-1, 0), do_triangles) = null
    /\ \A q \in Neighbours4(do_pixel) : SameSurface(PixelHit(do_pixel), PixelHit(q))
    /\ \E q \in Neighbours4(do_pixel) : PixelHit(q).distance # PixelHit(do_pixel).distance
    /\ do_result.isOutline = FALSE

-----------------------------------------------------------------------------
(* detectSilhouette (outlineView.ts, lines 73-129) *)

\* Lines 123-126: the lexicographic order that picks the first endpoint.
VertexBefore(v1, v2) ==
    \/ v1[1] < v2[1]
    \/ (v1[1] = v2[1] /\ v1[2] < v2[2])
    \/ (v1[1] = v2[1] /\ v1[2] = v2[2] /\ v1[3] < v2[3])

\* Line 128: the template string `x,y,z-x,y,z`, kept as the six numbers it
\* prints, in the order it prints them.  Two keys are the same string iff
\* they print the same six numbers.
createEdgeKey(v1, v2) ==
    LET first == IF VertexBefore(v1, v2) THEN v1 ELSE v2
        second == IF VertexBefore(v1, v2) THEN v2 ELSE v1
    IN  <<first[1], first[2], first[3], second[1], second[2], second[3]>>

\* Lines 90-93: edges.has / edges.set / edges.get(edgeKey).push(triIndex).
\* The Map is a sequence of entries in insertion order.
PushEdge(edges, edgeKey, triIndex) ==
    IF \E k \in 1..Len(edges) : edges[k].key = edgeKey
    THEN [k \in 1..Len(edges) |->
            IF edges[k].key = edgeKey
            THEN [key |-> edgeKey, indices |-> Append(edges[k].indices, triIndex)]
            ELSE edges[k]]
    ELSE Append(edges, [key |-> edgeKey, indices |-> <<triIndex>>])

\* Lines 83-94: the three edges of one triangle, i = 0, 1, 2.
AddTriangleEdges(edges, triangle, triIndex) ==
    LET vertices == triangle.vertices
        e0 == PushEdge(edges, createEdgeKey(vertices[1], vertices[2]), triIndex)
        e1 == PushEdge(e0, createEdgeKey(vertices[2], vertices[3]), triIndex)
    IN  PushEdge(e1, createEdgeKey(vertices[3], vertices[1]), triIndex)

\* Lines 107-108.
Facing(triangle, viewDirection) == dot(VertexVec(triangle.normal), viewDirection) < 0

\* Inputs: triangles over the corners of a unit square and a point above
\* it, among them one with a repeated vertex and one listing a shared edge
\* in the opposite direction.
SilhouetteTriangles ==
    { Tri(<<0, 0, 1>>, <<0, 0, 0>>, <<1, 0, 0>>, <<0, 1, 0>>),
      Tri(<<0, 0, -1>>, <<1, 0, 0>>, <<1, 1, 0>>, <<0, 1, 0>>),
      Tri(<<0, 0, 1>>, <<0, 1, 0>>, <<1, 0, 0>>, <<0, 0, 1>>),
      Tri(<<0, 0, -1>>, <<0, 0, 0>>, <<0, 0, 0>>, <<1, 0, 0>>),
      Tri(<<0, 1, 0>>, <<1, 0, 0>>, <<0, 0, 0>>, <<0, 0, 1>>) }

ViewDirections == { Vec(0, 0, -1), Vec(0, 0, 1) }

MaxSilTris == 3

InitSilhouette ==
    /\ ds_triangles \in SeqsUpTo(SilhouetteTriangles, MaxSilTris)
    /\ ds_viewDirection \in ViewDirections
    /\ ds_isSilhouette = [i \in 1..Len(ds_triangles) |-> FALSE]
    /\ ds_edges = <<>>
    /\ ds_t = 1
    /\ ds_e = 1
    /\ ds_pc = "build"
    /\ IdleRay /\ IdleOut /\ IdleMv /\ IdleStl /\ IdleParts /\ IdleMain /\ IdleCam
    /\ IdleView /\ IdleCentroid /\ IdleFind

\* Lines 79-95: one call of the triangles.forEach callback.
SilhouetteAddTriangle ==
    /\ ds_pc = "build"
    /\ ds_t <= Len(ds_triangles)
    /\ ds_edges' = AddTriangleEdges(ds_edges, ds_triangles[ds_t], ds_t)
    /\ ds_t' = ds_t + 1
    /\ UNCHANGED <<ds_triangles, ds_viewDirection, ds_e, ds_isSilhouette, ds_pc>>
    /\ UNCHANGED notSil

\* Lines 98-116: one call of the edges.forEach callback; the first call
\* follows the last triangle.
SilhouetteVisitEdge ==
    /\ ds_pc \in {"build", "edges"}
    /\ ds_t > Len(ds_triangles)
    /\ ds_e <= Len(ds_edges)
    /\ LET triangleIndices == ds_edges[ds_e].indices
       IN  IF Len(triangleIndices) = 2
              /\ Facing(ds_triangles[triangleIndices[1]], ds_viewDirection)
                 # Facing(ds_triangles[triangleIndices[2]], ds_viewDirection)
           THEN ds_isSilhouette' =
                    [i \in 1..Len(ds_triangles) |->
                        IF i = triangleIndices[1] \/ i = triangleIndices[2]
                        THEN TRUE
                        ELSE ds_isSilhouette[i]]
           ELSE ds_isSilhouette' = ds_isSilhouette
    /\ ds_e' = ds_e + 1
    /\ ds_pc' = "edges"
    /\ UNCHANGED <<ds_triangles, ds_viewDirection, ds_edges, ds_t>>
    /\ UNCHANGED notSil

\* Line 118: return isSilhouette.
SilhouetteReturn ==
    /\ ds_pc \in {"build", "edges"}
    /\ ds_t > Len(ds_triangles)
    /\ ds_e > Len(ds_edges)
    /\ ds_pc' = "done"
    /\ UNCHANGED <<ds_triangles, ds_viewDirection, ds_edges, ds_t, ds_e, ds_isSilhouette>>
    /\ UNCHANGED notSil

NextSilhouette == SilhouetteAddTriangle \/ SilhouetteVisitEdge \/ SilhouetteReturn

SpecSilhouette == InitSilhouette /\ [][NextSilhouette]_vars

\* The edges of a triangle as unordered pairs of endpoint coordinate triples,
\* and the triangles of the list that have a given edge.
EdgesOf(triangle) ==
    { {triangle.vertices[1], triangle.vertices[2]},
      {triangle.vertices[2], triangle.vertices[3]},
      {triangle.vertices[3], triangle.vertices[1]} }

TrianglesWithEdge(edge) ==
    { i \in 1..Len(ds_triangles) : edge \in EdgesOf(ds_triangles[i]) }

OnSilhouetteEdge(i) ==
    \E edge \in EdgesOf(ds_triangles[i]) :
        \E j \in TrianglesWithEdge(edge) :
            /\ j # i
            /\ TrianglesWithEdge(edge) = {i, j}
            /\ Facing(ds_triangles[i], ds_viewDirection)
               # Facing(ds_triangles[j], ds_viewDirection)

\* C4: the returned array has one entry per triangle, and entry i is true
\* iff triangle i has an edge shared by exactly two triangles i and j of the
\* list of which exactly one faces the viewer.
C4_SilhouetteIffSharedEdge ==
    ds_pc = "done" =>
        /\ Len(ds_isSilhouette) = Len(ds_triangles)
        /\ \A i \in 1..Len(ds_triangles) : ds_isSilhouette[i] <=> OnSilhouetteEdge(i)

\* The same statement over lists in which every triangle has three distinct
\* vertices.
HasDistinctVertices(triangle) == Cardinality(EdgesOf(triangle)) = 3 /\
    \A edge \in EdgesOf(triangle) : Cardinality(edge) = 2

SilhouetteOnProperTriangles ==
    (\A i \in 1..Len(ds_triangles) : HasDistinctVertices(ds_triangles[i]))
        => C4_SilhouetteIffSharedEdge

-----------------------------------------------------------------------------
(* generateMultiview (multiview, as in src/unnamed/part_004) *)

\* The tile the source renders is 1600 x 1200 (lines 27-28); the model
\* renders a reduced tile, wide enough to leave view pixels between the bars.
TileWidth == 20
TileHeight == 18

viewWidth == TileWidth
viewHeight == TileHeight
totalWidth == viewWidth * 2
totalHeight == viewHeight * 2

step == 2
borderThickness == 8

\* The image a file holds is written in this many pieces.
WriteChunks == 2

\* Bounds that are the cube from the origin to (1,1,1), whatever the list.
calculateBoundsMutant(triangles) ==
    [min |-> Vec(0, 0, 0), max |-> Vec(1, 1, 1)]

\* Lines 222-248.
calculateBounds(triangles) ==
    IF Len(triangles) = 0
    THEN [min |-> Vec(-1, -1, -1), max |-> Vec(1, 1, 1)]
    ELSE LET vertices == { triangles[t].vertices[k] : t \in 1..Len(triangles), k \in 1..3 }
             Least(S) == CHOOSE m \in S : \A n \in S : m <= n
             Greatest(S) == CHOOSE m \in S : \A n \in S : m >= n
         IN  [min |-> Vec(Least({ v[1] : v \in vertices }),
                          Least({ v[2] : v \in vertices }),
                          Least({ v[3] : v \in vertices })),
              max |-> Vec(Greatest({ v[1] : v \in vertices }),
                          Greatest({ v[2] : v \in vertices }),
                          Greatest({ v[3] : v \in vertices }))]

\* Line 39: models.flatMap(model => model.triangles).
RECURSIVE flatMapTriangles(_)
flatMapTriangles(models) ==
    IF Len(models) = 0
    THEN <<>>
    ELSE Head(models).triangles \o flatMapTriangles(Tail(models))

\* Lines 46-50 and 52-56.  The meshes of the model have even coordinates, so
\* the midpoint is a whole number.
boundsCenter(bounds) ==
    Vec((bounds.min.x + bounds.max.x) \div 2,
        (bounds.min.y + bounds.max.y) \div 2,
        (bounds.min.z + bounds.max.z) \div 2)

boundsMaxDimension(bounds) ==
    Max3(bounds.max.x - bounds.min.x,
         bounds.max.y - bounds.min.y,
         bounds.max.z - bounds.min.z)

\* Line 57: maxDimension / Math.min(viewWidth, viewHeight) * 2.0.
viewScale(maxDimension) == Frac(maxDimension * 2, Min2(viewWidth, viewHeight))

\* The table with the side view and the front view in the other order, each
\* in its own quadrant.
viewsReordered(center, maxDimension) ==
    << [name |-> "top",
        position |-> Vec(center.x, center.y, center.z + maxDimension * 2),
        target |-> center, up |-> Vec(0, 1, 0), canvasX |-> 0, canvasY |-> 0],
       [name |-> "perspective",
        position |-> Vec(center.x + (maxDimension * 3) \div 2,
                         center.y + (maxDimension * 3) \div 2,
                         center.z + maxDimension * 2),
        target |-> center, up |-> Vec(0, 1, 0), canvasX |-> viewWidth, canvasY |-> 0],
       [name |-> "front",
        position |-> Vec(center.x, center.y - maxDimension * 2, center.z),
        target |-> center, up |-> Vec(0, 0, 1), canvasX |-> viewWidth, canvasY |-> viewHeight],
       [name |-> "side",
        position |-> Vec(center.x - maxDimension * 2, center.y, center.z),
        target |-> center, up |-> Vec(0, 0, 1), canvasX |-> 0, canvasY |-> viewHeight] >>

\* The table with the offsets of the perspective and side views exchanged.
viewsMutant(center, maxDimension) ==
    << [name |-> "top",
        position |-> Vec(center.x, center.y, center.z + maxDimension * 2),
        target |-> center, up |-> Vec(0, 1, 0), canvasX |-> 0, canvasY |-> 0],
       [name |-> "perspective",
        position |-> Vec(center.x + (maxDimension * 3) \div 2,
                         center.y + (maxDimension * 3) \div 2,
                         center.z + maxDimension * 2),
        target |-> center, up |-> Vec(0, 1, 0), canvasX |-> 0, canvasY |-> viewHeight],
       [name |-> "side",
        position |-> Vec(center.x - maxDimension * 2, center.y, center.z),
        target |-> center, up |-> Vec(0, 0, 1), canvasX |-> viewWidth, canvasY |-> 0],
       [name |-> "front",
        position |-> Vec(center.x, center.y - maxDimension * 2, center.z),
        target |-> center, up |-> Vec(0, 0, 1), canvasX |-> viewWidth, canvasY |-> viewHeight] >>

\* Lines 63-104.  maxDimension * 1.5 is (maxDimension * 3) / 2, a whole
\* number for the even extents of the model.
views(center, maxDimension) ==
    << [name |-> "top",
        position |-> Vec(center.x, center.y, center.z + maxDimension * 2),
        target |-> center, up |-> Vec(0, 1, 0), canvasX |-> 0, canvasY |-> 0],
       [name |-> "perspective",
        position |-> Vec(center.x + (maxDimension * 3) \div 2,
                         center.y + (maxDimension * 3) \div 2,
                         center.z + maxDimension * 2),
        target |-> center, up |-> Vec(0, 1, 0), canvasX |-> viewWidth, canvasY |-> 0],
       [name |-> "side",
        position |-> Vec(center.x - maxDimension * 2, center.y, center.z),
        target |-> center, up |-> Vec(0, 0, 1), canvasX |-> 0, canvasY |-> viewHeight],
       [name |-> "front",
        position |-> Vec(center.x, center.y - maxDimension * 2, center.z),
        target |-> center, up |-> Vec(0, 0, 1), canvasX |-> viewWidth, canvasY |-> viewHeight] >>

\* Pixels.  A colour is kept as what it was computed from: the view and the
\* sample position whose ray decided it (castRay, detectOutline,
\* calculateLighting or the background grid).
transparent == [color |-> [kind |-> "none"], alpha |-> 0]
black == [color |-> [kind |-> "black"], alpha |-> 255]
sampleColor(name, x, y) == [kind |-> "sample", view |-> name, x |-> x, y |-> y]

\* createCanvas(width, height): a canvas of transparent pixels.
createCanvas(width, height) ==
    [width |-> width, height |-> height,
     pixels |-> [p \in (0..(width - 1)) \X (0..(height - 1)) |-> transparent]]

\* ctx.createImageData(width, height): width * height transparent pixels,
\* pixel k held at data[4k .. 4k+3].
createImageData(width, height) ==
    [width |-> width, height |-> height,
     data |-> [k \in 0..(width * height - 1) |-> transparent]]

\* The block without the clipping on x: it runs over the end of the row.
blockIndicesMutant(width, height, x, y) ==
    { (y + dy) * width + (x + dx) :
        dx \in 0..(step - 1),
        dy \in { d \in 0..(step - 1) : y + d < height } }

\* Lines 195-198: the pixels of the block of the sample at (x, y), clipped to
\* the tile by the loop conditions; pixelIndex / 4 of each.
blockIndices(width, height, x, y) ==
    { (y + dy) * width + (x + dx) :
        dx \in { d \in 0..(step - 1) : x + d < width },
        dy \in { d \in 0..(step - 1) : y + d < height } }

\* Lines 195-203: the block of one sample is given the sample's colour and
\* alpha 255; a typed array ignores a write beyond its length.
fillBlock(imageData, x, y, color) ==
    LET written == blockIndices(imageData.width, imageData.height, x, y)
    IN  [imageData EXCEPT !.data =
            [k \in DOMAIN imageData.data |->
                IF k \in written
                THEN [color |-> color, alpha |-> 255]
                ELSE imageData.data[k]]]

\* ctx.putImageData(imageData, offsetX, offsetY): the pixels of the tile
\* replace those of the canvas, clipped to the canvas.
putImageData(canvas, imageData, offsetX, offsetY) ==
    [canvas EXCEPT !.pixels =
        [p \in DOMAIN canvas.pixels |->
            IF /\ p[1] - offsetX \in 0..(imageData.width - 1)
               /\ p[2] - offsetY \in 0..(imageData.height - 1)
            THEN imageData.data[(p[2] - offsetY) * imageData.width + (p[1] - offsetX)]
            ELSE canvas.pixels[p]]]

\* ctx.fillRect(x, y, w, h) with fillStyle '#000000'.
fillRect(canvas, x, y, w, h) ==
    [canvas EXCEPT !.pixels =
        [p \in DOMAIN canvas.pixels |->
            IF p[1] >= x /\ p[1] < x + w /\ p[2] >= y /\ p[2] < y + h
            THEN black
            ELSE canvas.pixels[p]]]

\* Inner bars that end at the quadrant boundary instead of straddling it.
drawViewBordersMutant(canvas, vw, vh) ==
    LET c1 == fillRect(canvas, vw - borderThickness, 0, borderThickness, vh * 2)
        c2 == fillRect(c1, 0, vh - borderThickness, vw * 2, borderThickness)
        c3 == fillRect(c2, 0, 0, vw * 2, borderThickness)
        c4 == fillRect(c3, 0, vh * 2 - borderThickness, vw * 2, borderThickness)
        c5 == fillRect(c4, 0, 0, borderThickness, vh * 2)
    IN  fillRect(c5, vw * 2 - borderThickness, 0, borderThickness, vh * 2)

\* Lines 312-337.
drawViewBorders(canvas, vw, vh) ==
    LET centerX == vw
        centerY == vh
        c1 == fillRect(canvas, centerX - borderThickness \div 2, 0, borderThickness, vh * 2)
        c2 == fillRect(c1, 0, centerY - borderThickness \div 2, vw * 2, borderThickness)
        c3 == fillRect(c2, 0, 0, vw * 2, borderThickness)
        c4 == fillRect(c3, 0, vh * 2 - borderThickness, vw * 2, borderThickness)
        c5 == fillRect(c4, 0, 0, borderThickness, vh * 2)
    IN  fillRect(c5, vw * 2 - borderThickness, 0, borderThickness, vh * 2)

\* The file at options.outputPath: absent, or an image of which `chunks`
\* pieces are on disk.
noFile == [exists |-> FALSE, image |-> "none", chunks |-> 0]
oldFile == [exists |-> TRUE, image |-> "previous", chunks |-> WriteChunks]

\* Inputs: no model, a model without triangles, one and two models with
\* triangles; the tile size asked for through the options.
MvTriangleA == Tri(<<0, 0, 1>>, <<0, 0, 0>>, <<2, 0, 0>>, <<0, 2, 0>>)
MvTriangleB == Tri(<<0, 1, 0>>, <<-2, -2, 0>>, <<2, -2, 0>>, <<0, 2, 4>>)

\* A facet whose three vertices coincide.
MvTrianglePoint == Tri(<<0, 0, 0>>, <<1, 1, 1>>, <<1, 1, 1>>, <<1, 1, 1>>)

MvModels ==
    { <<>>,
      << [triangles |-> <<>>] >>,
      << [triangles |-> <<MvTriangleA>>] >>,
      << [triangles |-> <<MvTriangleA>>], [triangles |-> <<MvTriangleB>>] >>,
      << [triangles |-> <<MvTrianglePoint>>] >> }

MvOptions ==
    { [width |-> viewWidth, height |-> viewHeight, outputPath |-> "out.png"],
      [width |-> viewWidth \div 2, height |-> viewHeight \div 2, outputPath |-> "out.png"] }

InitMultiview ==
    /\ mv_input \in [models : MvModels, options : MvOptions, file : {noFile, oldFile}]
    /\ mv_file = mv_input.file
    /\ mv_setup = <<>>
    /\ mv_canvas = <<>>
    /\ mv_i = 0
    /\ mv_camera = <<>>
    /\ mv_data = <<>>
    /\ mv_xy = <<>>
    /\ mv_buffer = <<>>
    /\ mv_pc = "start"
    /\ IdleRay /\ IdleOut /\ IdleSil /\ IdleStl /\ IdleParts /\ IdleMain /\ IdleCam
    /\ IdleView /\ IdleCentroid /\ IdleFind

\* Lines 26-104: the canvas, the scene, the bounds and the four views.
MvSetup ==
    /\ mv_pc = "start"
    /\ mv_canvas' = createCanvas(totalWidth, totalHeight)
    /\ LET allTriangles == flatMapTriangles(mv_input.models)
           bounds == calculateBounds(allTriangles)
           center == boundsCenter(bounds)
           maxDimension == boundsMaxDimension(bounds)
       IN  mv_setup' = [allTriangles |-> allTriangles, bounds |-> bounds,
                        center |-> center, maxDimension |-> maxDimension,
                        scale |-> viewScale(maxDimension),
                        views |-> views(center, maxDimension)]
    /\ mv_i' = 1
    /\ mv_pc' = "views"
    /\ UNCHANGED <<mv_input, mv_camera, mv_data, mv_xy, mv_buffer, mv_file>>
    /\ UNCHANGED notMv

\* Lines 107-118 and 152-153: the next view's camera and renderView's
\* imageData.
MvBeginView ==
    /\ mv_pc = "views"
    /\ mv_i <= Len(mv_setup.views)
    /\ LET view == mv_setup.views[mv_i]
       IN  mv_camera' = createOrthographicCamera(view.position, view.target, view.up,
                                                 viewWidth, viewHeight, mv_setup.scale)
    /\ mv_data' = createImageData(viewWidth, viewHeight)
    /\ mv_xy' = <<0, 0>>
    /\ mv_pc' = "render"
    /\ UNCHANGED <<mv_input, mv_setup, mv_canvas, mv_i, mv_buffer, mv_file>>
    /\ UNCHANGED notMv

\* Lines 163-213: one sample of renderView, x the inner loop and y the outer.
MvSample ==
    /\ mv_pc = "render"
    /\ LET x == mv_xy[1]
           y == mv_xy[2]
           color == sampleColor(mv_setup.views[mv_i].name, x, y)
           nextX == IF x + step < mv_data.width THEN x + step ELSE 0
           nextY == IF x + step < mv_data.width THEN y ELSE y + step
       IN  /\ mv_data' = fillBlock(mv_data, x, y, color)
           /\ mv_xy' = <<nextX, nextY>>
           /\ mv_pc' = IF nextY < mv_data.height THEN "render" ELSE "put"
    /\ UNCHANGED <<mv_input, mv_setup, mv_canvas, mv_i, mv_camera, mv_buffer, mv_file>>
    /\ UNCHANGED notMv

\* Line 219, and the view loop's i++.
MvPutImageData ==
    /\ mv_pc = "put"
    /\ LET view == mv_setup.views[mv_i]
       IN  mv_canvas' = putImageData(mv_canvas, mv_data, view.canvasX, view.canvasY)
    /\ mv_i' = mv_i + 1
    /\ mv_pc' = "views"
    /\ UNCHANGED <<mv_input, mv_setup, mv_camera, mv_data, mv_xy, mv_buffer, mv_file>>
    /\ UNCHANGED notMv

\* Line 132, after the last view.
MvDrawViewBorders ==
    /\ mv_pc = "views"
    /\ mv_i > Len(mv_setup.views)
    /\ mv_canvas' = drawViewBorders(mv_canvas, viewWidth, viewHeight)
    /\ mv_pc' = "encode"
    /\ UNCHANGED <<mv_input, mv_setup, mv_i, mv_camera, mv_data, mv_xy, mv_buffer, mv_file>>
    /\ UNCHANGED notMv

\* Line 136: canvas.toBuffer('image/png').
MvEncode ==
    /\ mv_pc = "encode"
    /\ mv_buffer' = mv_canvas
    /\ mv_pc' = "open"
    /\ UNCHANGED <<mv_input, mv_setup, mv_canvas, mv_i, mv_camera, mv_data, mv_xy, mv_file>>
    /\ UNCHANGED notMv

\* Line 136 throwing: the promise of generateMultiview rejects.
MvEncodeFail ==
    /\ mv_pc = "encode"
    /\ mv_pc' = "failed"
    /\ UNCHANGED <<mv_input, mv_setup, mv_canvas, mv_i, mv_camera, mv_data, mv_xy,
                   mv_buffer, mv_file>>
    /\ UNCHANGED notMv

\* Line 137, fs.writeFile(options.outputPath, buffer): the path is opened
\* with flag 'w', which creates the file or truncates the one there ...
MvWriteOpen ==
    /\ mv_pc = "open"
    /\ mv_file' = [exists |-> TRUE, image |-> "new", chunks |-> 0]
    /\ mv_pc' = "write"
    /\ UNCHANGED <<mv_input, mv_setup, mv_canvas, mv_i, mv_camera, mv_data, mv_xy, mv_buffer>>
    /\ UNCHANGED notMv

\* ... the buffer is written to it piece by piece ...
MvWriteChunk ==
    /\ mv_pc = "write"
    /\ mv_file.chunks < WriteChunks
    /\ mv_file' = [mv_file EXCEPT !.chunks = @ + 1]
    /\ UNCHANGED <<mv_input, mv_setup, mv_canvas, mv_i, mv_camera, mv_data, mv_xy,
                   mv_buffer, mv_pc>>
    /\ UNCHANGED notMv

\* ... and the file is closed, which fulfils the promise.
MvWriteDone ==
    /\ mv_pc = "write"
    /\ mv_file.chunks = WriteChunks
    /\ mv_pc' = "done"
    /\ UNCHANGED <<mv_input, mv_setup, mv_canvas, mv_i, mv_camera, mv_data, mv_xy,
                   mv_buffer, mv_file>>
    /\ UNCHANGED notMv

\* The open or any write may fail (no space, an I/O error, the process
\* stopped): the promise rejects and the file stays as it is.
MvWriteFail ==
    /\ mv_pc \in {"open", "write"}
    /\ mv_pc' = "failed"
    /\ UNCHANGED <<mv_input, mv_setup, mv_canvas, mv_i, mv_camera, mv_data, mv_xy,
                   mv_buffer, mv_file>>
    /\ UNCHANGED notMv

NextMultiview ==
    \/ MvSetup
    \/ MvBeginView
    \/ MvSample
    \/ MvPutImageData
    \/ MvDrawViewBorders
    \/ MvEncode
    \/ MvEncodeFail
    \/ MvWriteOpen
    \/ MvWriteChunk
    \/ MvWriteDone
    \/ MvWriteFail

SpecMultiview == InitMultiview /\ [][NextMultiview]_vars

\* The canvas quadrant a pixel lies in: its view and its offset.
QuadrantView(p) ==
    IF p[2] < viewHeight
    THEN (IF p[1] < viewWidth THEN "top" ELSE "perspective")
    ELSE (IF p[1] < viewWidth THEN "side" ELSE "front")

QuadrantOffset(p) ==
    << IF p[1] < viewWidth THEN 0 ELSE viewWidth,
       IF p[2] < viewHeight THEN 0 ELSE viewHeight >>

AllViewsPlaced == mv_pc = "views" /\ mv_i > Len(mv_setup.views)

\* C5: the image is (2 x options.width) x (2 x options.height).
C5_CanvasFollowsOptions ==
    mv_pc = "done" =>
        /\ mv_buffer.width = 2 * mv_input.options.width
        /\ mv_buffer.height = 2 * mv_input.options.height

\* C6: when encoding or writing fails, the file at options.outputPath is the
\* file that was there before the call or a complete image.
C6_AtomicOutput ==
    mv_pc = "failed" =>
        \/ mv_file = mv_input.file
        \/ (mv_file.image = "new" /\ mv_file.chunks = WriteChunks)

\* C7: four views are built; whatever a view has put on the canvas lies in
\* its own quadrant (top upper-left, perspective upper-right, side
\* lower-left, front lower-right), tile pixel (x, y) at canvas
\* (offsetX + x, offsetY + y); once the four views are placed every pixel of
\* every quadrant holds a pixel of that quadrant's view.
C7_QuadrantPlacement ==
    mv_pc # "start" =>
        /\ Len(mv_setup.views) = 4
        /\ \A p \in DOMAIN mv_canvas.pixels :
             LET c == mv_canvas.pixels[p].color
                 off == QuadrantOffset(p)
             IN  /\ c.kind = "sample" =>
                      /\ c.view = QuadrantView(p)
                      /\ c.x = step * ((p[1] - off[1]) \div step)
                      /\ c.y = step * ((p[2] - off[2]) \div step)
                 /\ AllViewsPlaced => c.kind = "sample"

\* C7 witness: the four views are placed and a corner pixel of each quadrant
\* holds the first sample of its view.
C7_Witness ==
    /\ AllViewsPlaced
    /\ mv_canvas.pixels[<<0, 0>>].color = sampleColor("top", 0, 0)
    /\ mv_canvas.pixels[<<viewWidth, 0>>].color = sampleColor("perspective", 0, 0)
    /\ mv_canvas.pixels[<<0, viewHeight>>].color = sampleColor("side", 0, 0)
    /\ mv_canvas.pixels[<<viewWidth, viewHeight>>].color = sampleColor("front", 0, 0)

\* The separator bars: the band centred on x = viewWidth, the band centred
\* on y = viewHeight and the frame along the canvas edge.
InBar(p) ==
    \/ (p[1] >= viewWidth - borderThickness \div 2 /\ p[1] < viewWidth + borderThickness \div 2)
    \/ (p[2] >= viewHeight - borderThickness \div 2 /\ p[2] < viewHeight + borderThickness \div 2)
    \/ p[1] < borderThickness \/ p[1] >= totalWidth - borderThickness
    \/ p[2] < borderThickness \/ p[2] >= totalHeight - borderThickness

\* C8: no bar is drawn while views are still being rendered and placed;
\* when the bars have been drawn the four views are on the canvas; and in
\* the encoded image every pixel of the bars is black and every other pixel
\* is the view pixel that was placed there.
C8_SeparatorBars ==
    /\ mv_pc \in {"views", "render", "put"} =>
         \A p \in DOMAIN mv_canvas.pixels : mv_canvas.pixels[p] # black
    /\ mv_pc = "encode" => mv_i > Len(mv_setup.views)
    /\ mv_pc \in {"open", "write", "done"} =>
         \A p \in DOMAIN mv_buffer.pixels :
             IF InBar(p)
             THEN mv_buffer.pixels[p] = black
             ELSE /\ mv_buffer.pixels[p].color.kind = "sample"
                  /\ mv_buffer.pixels[p].color.view = QuadrantView(p)

\* C8 witness: the image has been written; the crossing of the two inner
\* bars is black and a pixel just inside the frame still shows the top view.
C8_Witness ==
    /\ mv_pc = "done"
    /\ mv_file = [exists |-> TRUE, image |-> "new", chunks |-> WriteChunks]
    /\ mv_buffer.pixels[<<viewWidth, viewHeight>>] = black
    /\ mv_buffer.pixels[<<viewWidth - borderThickness \div 2, 0>>] = black
    /\ mv_buffer.pixels[<<borderThickness, borderThickness>>].color.kind = "sample"

\* C9 as stated: with no triangle the bounds are a cube of edge length 1
\* centred at the origin, so center = (0,0,0) and maxDimension = 1.
C9_UnitCubeDefault ==
    (mv_pc # "start" /\ Len(mv_setup.allTriangles) = 0) =>
        /\ mv_setup.bounds.max.x - mv_setup.bounds.min.x = 1
        /\ mv_setup.bounds.max.y - mv_setup.bounds.min.y = 1
        /\ mv_setup.bounds.max.z - mv_setup.bounds.min.z = 1
        /\ mv_setup.center = Vec(0, 0, 0)
        /\ mv_setup.maxDimension = 1

\* C9 amended: with no triangle the bounds are the cube from (-1,-1,-1) to
\* (1,1,1), of edge length 2, centred at the origin: center = (0,0,0) and
\* maxDimension = 2 are the values the scale and the four cameras are
\* computed from.
C9_DefaultCube ==
    (mv_pc # "start" /\ Len(mv_setup.allTriangles) = 0) =>
        /\ mv_setup.bounds = [min |-> Vec(-1, -1, -1), max |-> Vec(1, 1, 1)]
        /\ mv_setup.center = Vec(0, 0, 0)
        /\ mv_setup.maxDimension = 2
        /\ mv_setup.scale = Frac(2 * 2, Min2(viewWidth, viewHeight))
        /\ \A i \in 1..Len(mv_setup.views) : mv_setup.views[i].target = Vec(0, 0, 0)
        /\ mv_setup.views[1].position = Vec(0, 0, 4)
        /\ mv_setup.views[2].position = Vec(3, 3, 4)
        /\ mv_setup.views[3].position = Vec(-4, 0, 0)
        /\ mv_setup.views[4].position = Vec(0, -4, 0)
        /\ mv_pc = "render" => mv_camera.position = mv_setup.views[mv_i].position

\* C9 witness: a model list whose concatenated triangle list is empty, with
\* the camera of the front view built.
C9_Witness ==
    /\ mv_pc = "render"
    /\ mv_i = 4
    /\ Len(mv_input.models) = 1
    /\ Len(mv_setup.allTriangles) = 0
    /\ mv_camera.position = Vec(0, -4, 0)

\* The vector that getRayForPixel normalizes into forward, and the one it
\* normalizes into right: normalize scales by a positive number unless the
\* vector is zero, and returns zero when it is.
forwardOf(camera) == subtract(camera.target, camera.position)

rightOf(camera) == cross(forwardOf(camera), camera.up)

\* C20: whatever the mesh list, every camera that generateMultiview builds
\* has a forward vector that is not zero and an up vector that is not
\* collinear with it, so that the right vector is not zero.
C20_CameraBasis ==
    mv_pc \in {"render", "put"} =>
        /\ forwardOf(mv_camera) # Vec(0, 0, 0)
        /\ rightOf(mv_camera) # Vec(0, 0, 0)

\* The same for the mesh lists whose bounds have an extent: with no triangle
\* at all the bounds are the default cube.
CameraBasisOfExtendedMeshes ==
    (mv_pc \in {"render", "put"} /\ mv_setup.maxDimension > 0) =>
        /\ forwardOf(mv_camera) # Vec(0, 0, 0)
        /\ rightOf(mv_camera) # Vec(0, 0, 0)

\* A mesh whose vertices all coincide: the bounds have no extent, and every
\* camera is placed on its target with a scale of 0.
CameraBasisOfPointMeshes ==
    (mv_pc \in {"render", "put"} /\ mv_setup.maxDimension = 0) =>
        /\ Len(mv_setup.allTriangles) > 0
        /\ mv_camera.position = mv_camera.target
        /\ mv_camera.right.num = 0

-----------------------------------------------------------------------------
(* parseBinarySTL (stl.ts, lines 81-127) *)

\* A Buffer is a sequence of bytes; the byte at offset k is buffer[k + 1].
ByteAt(buffer, k) == buffer[k + 1]

RangeError == [kind |-> "RangeError"]

\* buffer.readUInt32LE(offset): throws unless offset + 4 <= buffer.length.
readUInt32LE(buffer, offset) ==
    IF offset + 4 > Len(buffer)
    THEN RangeError
    ELSE [kind |-> "value",
          value |-> ByteAt(buffer, offset) + 256 * ByteAt(buffer, offset + 1)
                    + 65536 * ByteAt(buffer, offset + 2)
                    + 16777216 * ByteAt(buffer, offset + 3)]

\* buffer.readFloatLE(offset): throws unless offset + 4 <= buffer.length.
\* The float is kept as its bit pattern, most significant byte first.
readFloatLE(buffer, offset) ==
    IF offset + 4 > Len(buffer)
    THEN RangeError
    ELSE [kind |-> "value",
          value |-> <<ByteAt(buffer, offset + 3), ByteAt(buffer, offset + 2),
                      ByteAt(buffer, offset + 1), ByteAt(buffer, offset)>>]

HeaderBytes == 80
CountBytes == 4
NormalBytes == 12
VertexBytes == 36
AttributeBytes == 2

\* Lines 92-117: the twelve reads of one record, in the order they are made.
RecordReads(buffer, offset) ==
    [k \in 1..12 |-> readFloatLE(buffer, offset + 4 * (k - 1))]

\* Lines 93-97, 101-117 and 123: the triangle pushed for those reads.
RecordTriangle(reads) ==
    [normal |-> <<reads[1].value, reads[2].value, reads[3].value>>,
     vertices |-> << <<reads[4].value, reads[5].value, reads[6].value>>,
                     <<reads[7].value, reads[8].value, reads[9].value>>,
                     <<reads[10].value, reads[11].value, reads[12].value>> >>]

\* Inputs: buffers of every length around the ends of the header and of the
\* records, declaring a count of 0 and more (256 is <<0, 1, 0, 0>>), filled
\* with one of two byte patterns.
MaxRecords == 2

DeclaredCounts == 0..(MaxRecords + 1) \cup {256}

BufferLengths ==
    {0, 4, 83} \cup
    { 84 + 50 * n + d : n \in 0..MaxRecords, d \in {-2, -1, 0, 1} } \cup
    { 84 + 50 * n + 47 : n \in 0..(MaxRecords - 1) }

BytePatterns == { <<1, 0>>, <<7, 3>> }

MakeBuffer(len, count, pattern) ==
    [k \in 1..len |->
        IF k - 1 < 80 THEN 0
        ELSE IF k - 1 = 80 THEN count % 256
        ELSE IF k - 1 = 81 THEN (count \div 256) % 256
        ELSE IF k - 1 = 82 THEN (count \div 65536) % 256
        ELSE IF k - 1 = 83 THEN count \div 16777216
        ELSE ((k - 1) * pattern[1] + pattern[2]) % 256]

InitBinary ==
    /\ st_buffer \in { MakeBuffer(len, count, pattern) :
                         len \in BufferLengths, count \in DeclaredCounts,
                         pattern \in BytePatterns }
    /\ st_offset = HeaderBytes
    /\ st_numTriangles = 0
    /\ st_i = 0
    /\ st_triangles = <<>>
    /\ st_pc = "header"
    /\ st_lines = <<>>
    /\ st_called = <<"parseBinarySTL">>
    /\ IdleRay /\ IdleOut /\ IdleSil /\ IdleMv /\ IdleParts /\ IdleMain /\ IdleCam
    /\ IdleView /\ IdleCentroid /\ IdleFind

\* Lines 85-89: read the count, or throw.
ParseBinaryCount ==
    /\ st_pc = "header"
    /\ LET numTriangles == readUInt32LE(st_buffer, st_offset)
       IN  IF numTriangles = RangeError
           THEN /\ st_pc' = "threw"
                /\ UNCHANGED <<st_offset, st_numTriangles>>
           ELSE /\ st_numTriangles' = numTriangles.value
                /\ st_offset' = st_offset + CountBytes
                /\ st_pc' = "records"
    /\ UNCHANGED <<st_buffer, st_i, st_triangles, st_lines, st_called>>
    /\ UNCHANGED notStl

\* Lines 91-124: one iteration of the loop; the first read that is out of
\* range throws and the triangles read so far are lost with the call.
ParseBinaryRecord ==
    /\ st_pc = "records"
    /\ st_i < st_numTriangles
    /\ LET reads == RecordReads(st_buffer, st_offset)
       IN  IF \E k \in 1..12 : reads[k] = RangeError
           THEN /\ st_pc' = "threw"
                /\ UNCHANGED <<st_offset, st_i, st_triangles>>
           ELSE /\ st_triangles' = Append(st_triangles, RecordTriangle(reads))
                /\ st_offset' = st_offset + NormalBytes + VertexBytes + AttributeBytes
                /\ st_i' = st_i + 1
                /\ st_pc' = "records"
    /\ UNCHANGED <<st_buffer, st_numTriangles, st_lines, st_called>>
    /\ UNCHANGED notStl

\* Line 126: return { triangles }.
ParseBinaryReturn ==
    /\ st_pc = "records"
    /\ st_i >= st_numTriangles
    /\ st_pc' = "returned"
    /\ UNCHANGED <<st_buffer, st_offset, st_numTriangles, st_i, st_triangles,
                   st_lines, st_called>>
    /\ UNCHANGED notStl

NextBinary == ParseBinaryCount \/ ParseBinaryRecord \/ ParseBinaryReturn

SpecBinary == InitBinary /\ [][NextBinary]_vars

\* The count a buffer of at least 84 bytes declares, and the triangle its
\* i-th record (from 0) holds in the 48 bytes at offset 84 + 50 i.
DeclaredCount(buffer) ==
    ByteAt(buffer, 80) + 256 * ByteAt(buffer, 81) + 65536 * ByteAt(buffer, 82)
    + 16777216 * ByteAt(buffer, 83)

FloatAt(buffer, k) ==
    <<ByteAt(buffer, k + 3), ByteAt(buffer, k + 2), ByteAt(buffer, k + 1), ByteAt(buffer, k)>>

TriangleAt(buffer, i) ==
    LET at == 84 + 50 * i
    IN  [normal |-> <<FloatAt(buffer, at), FloatAt(buffer, at + 4), FloatAt(buffer, at + 8)>>,
         vertices |->
            << <<FloatAt(buffer, at + 12), FloatAt(buffer, at + 16), FloatAt(buffer, at + 20)>>,
               <<FloatAt(buffer, at + 24), FloatAt(buffer, at + 28), FloatAt(buffer, at + 32)>>,
               <<FloatAt(buffer, at + 36), FloatAt(buffer, at + 40), FloatAt(buffer, at + 44)>> >>]

HoldsAllRecords(buffer) ==
    /\ Len(buffer) >= 84
    /\ Len(buffer) >= 84 + 50 * DeclaredCount(buffer)

\* C10: parseBinarySTL succeeds iff the buffer holds at least 84 + 50 N
\* bytes, N the count at offset 80; on success it returns the N triangles
\* of the records in file order; otherwise it throws and returns nothing.
C10_BinaryDecode ==
    /\ st_pc = "returned" =>
         /\ HoldsAllRecords(st_buffer)
         /\ Len(st_triangles) = DeclaredCount(st_buffer)
         /\ \A i \in 1..Len(st_triangles) : st_triangles[i] = TriangleAt(st_buffer, i - 1)
    /\ st_pc = "threw" => ~HoldsAllRecords(st_buffer)

\* The same with the two attribute bytes of the last record left out of the
\* bytes the buffer has to hold.
HoldsAllReads(buffer) ==
    /\ Len(buffer) >= 84
    /\ (DeclaredCount(buffer) > 0 => Len(buffer) >= 84 + 50 * DeclaredCount(buffer) - 2)

BinaryDecodeUpToAttributeBytes ==
    /\ st_pc = "returned" =>
         /\ HoldsAllReads(st_buffer)
         /\ Len(st_triangles) = DeclaredCount(st_buffer)
         /\ \A i \in 1..Len(st_triangles) : st_triangles[i] = TriangleAt(st_buffer, i - 1)
    /\ st_pc = "threw" => ~HoldsAllReads(st_buffer)

-----------------------------------------------------------------------------
(* Strings of parseSTL and parseASCIISTL (stl.ts, lines 14-79) *)

\* A string is the sequence of its character codes.  The words of the format:
solid == <<115, 111, 108, 105, 100>>
facetNormal == <<102, 97, 99, 101, 116, 32, 110, 111, 114, 109, 97, 108>>
outerLoop == <<111, 117, 116, 101, 114, 32, 108, 111, 111, 112>>
vertex == <<118, 101, 114, 116, 101, 120>>
endloop == <<101, 110, 100, 108, 111, 111, 112>>
endfacet == <<101, 110, 100, 102, 97, 99, 101, 116>>
endsolid == <<101, 110, 100, 115, 111, 108, 105, 100>>
InfinityWord == <<73, 110, 102, 105, 110, 105, 116, 121>>

LineFeed == <<10>>
CarriageReturn == <<13>>
Space == <<32>>

\* The characters String.prototype.trim strips and \s matches, among the
\* codes a decoded buffer can hold: tab, LF, VT, FF, CR, space, NBSP, BOM,
\* and the Unicode space separators and line terminators.
WhiteSpace ==
    {9, 10, 11, 12, 13, 32, 160, 5760, 8232, 8233, 8239, 8287, 12288, 65279}
    \cup (8192..8202)

Digits == 48..57

\* Line 19: buffer.toString('ascii', start, end) clears the high bit of each
\* byte of the range, cut at the end of the buffer.
toStringAscii(buffer, start, end) ==
    [k \in 1..(Min2(end, Len(buffer)) - Min2(start, Len(buffer))) |->
        buffer[Min2(start, Len(buffer)) + k] % 128]

\* Line 28: buffer.toString('utf8').  A byte under 128 is its character; a
\* byte from 128 that starts no well-formed sequence decodes to U+FFFD.
toStringUtf8(buffer) ==
    [k \in 1..Len(buffer) |-> IF buffer[k] < 128 THEN buffer[k] ELSE 65533]

\* Line 31: content.split('\n'): the pieces between the line feeds, one more
\* than there are line feeds.
LineFeeds(content) == { k \in 1..Len(content) : content[k] = LineFeed[1] }

NthOf(positions, n) ==
    CHOOSE p \in positions : Cardinality({ q \in positions : q < p }) = n - 1

split(content) ==
    LET feeds == LineFeeds(content)
        count == Cardinality(feeds)
    IN  [n \in 1..(count + 1) |->
            SubSeq(content,
                   IF n = 1 THEN 1 ELSE NthOf(feeds, n - 1) + 1,
                   IF n = count + 1 THEN Len(content) ELSE NthOf(feeds, n) - 1)]

\* Line 31: line.trim(): from the first to the last character that is not
\* white space.
Inked(s) == { k \in 1..Len(s) : s[k] \notin WhiteSpace }

trimStart(s) ==
    IF Inked(s) = {}
    THEN <<>>
    ELSE SubSeq(s, CHOOSE k \in Inked(s) : \A j \in Inked(s) : k <= j, Len(s))

trim(s) ==
    IF Inked(s) = {}
    THEN <<>>
    ELSE SubSeq(s, CHOOSE k \in Inked(s) : \A j \in Inked(s) : k <= j,
                   CHOOSE k \in Inked(s) : \A j \in Inked(s) : k >= j)

\* Lines 35, 42: line.startsWith(prefix).
startsWith(s, prefix) ==
    /\ Len(s) >= Len(prefix)
    /\ SubSeq(s, 1, Len(prefix)) = prefix

\* Lines 43, 59: line.split(/\s+/).  Every maximal run of white space is one
\* separator, and there is one more field than there are separators; a run
\* at either end leaves an empty string there.
RunStarts(s) ==
    { k \in 1..Len(s) : s[k] \in WhiteSpace /\ (k = 1 \/ s[k - 1] \notin WhiteSpace) }

RunEnds(s) ==
    { k \in 1..Len(s) : s[k] \in WhiteSpace /\ (k = Len(s) \/ s[k + 1] \notin WhiteSpace) }

splitWhiteSpace(s) ==
    LET count == Cardinality(RunStarts(s))
    IN  [n \in 1..(count + 1) |->
            SubSeq(s,
                   IF n = 1 THEN 1 ELSE NthOf(RunEnds(s), n - 1) + 1,
                   IF n = count + 1 THEN Len(s) ELSE NthOf(RunStarts(s), n) - 1)]

\* Lines 43, 59: parts.slice(start).
slice(parts, start) == SubSeq(parts, start + 1, Len(parts))

NaN == [kind |-> "NaN"]

\* The number of digits of s from position p on.
RECURSIVE DigitRun(_, _)
DigitRun(s, p) ==
    IF p <= Len(s) /\ s[p] \in Digits THEN 1 + DigitRun(s, p + 1) ELSE 0

\* The value of the n digits of s from position p, after the digits read so
\* far, whose value is acc.
RECURSIVE DigitsValue(_, _, _, _)
DigitsValue(s, p, n, acc) ==
    IF n = 0 THEN acc ELSE DigitsValue(s, p + 1, n - 1, 10 * acc + (s[p] - 48))

\* A number is kept as sign, mantissa and decimal exponent, the mantissa
\* without trailing zeros: 2.50 is 25 * 10^-1.
RECURSIVE Decimal(_, _, _)
Decimal(negative, mantissa, exponent) ==
    IF mantissa = 0
    THEN [kind |-> "number", negative |-> negative, mantissa |-> 0, exponent |-> 0]
    ELSE IF mantissa % 10 = 0
         THEN Decimal(negative, mantissa \div 10, exponent + 1)
         ELSE [kind |-> "number", negative |-> negative, mantissa |-> mantissa,
               exponent |-> exponent]

\* Lines 45-47, 61-63: parseFloat(string).  Leading white space is skipped,
\* then the longest prefix that is a decimal literal is converted: a sign,
\* Infinity or digits with an optional fraction, and an exponent when digits
\* follow it.  What follows the prefix is ignored; without a prefix the
\* result is NaN.
parseFloat(string) ==
    LET t == trimStart(string)
        signed == Len(t) > 0 /\ t[1] \in {43, 45}
        negative == signed /\ t[1] = 45
        p == IF signed THEN 2 ELSE 1
        n1 == DigitRun(t, p)
        point == p + n1 <= Len(t) /\ t[p + n1] = 46
        n2 == IF point THEN DigitRun(t, p + n1 + 1) ELSE 0
        r == IF point THEN p + n1 + 1 + n2 ELSE p + n1
        mantissa == DigitsValue(t, p + n1 + 1, n2, DigitsValue(t, p, n1, 0))
        marked == r <= Len(t) /\ t[r] \in {69, 101}
        esigned == marked /\ r + 1 <= Len(t) /\ t[r + 1] \in {43, 45}
        q == IF esigned THEN r + 2 ELSE r + 1
        n3 == IF marked THEN DigitRun(t, q) ELSE 0
        e == DigitsValue(t, q, n3, 0)
        exponent == IF esigned /\ t[r + 1] = 45 THEN 0 - e ELSE e
    IN  IF startsWith(SubSeq(t, p, Len(t)), InfinityWord)
        THEN [kind |-> "Infinity", negative |-> negative]
        ELSE IF n1 + n2 = 0
             THEN NaN
             ELSE Decimal(negative, mantissa, exponent - n2)

\* Lines 45-47, 61-63: parseFloat(parts[k]); parts[k] is undefined beyond
\* the end of the array and parseFloat(undefined) is NaN.
parseFloatAt(parts, k) ==
    IF k + 1 <= Len(parts) THEN parseFloat(parts[k + 1]) ELSE NaN

-----------------------------------------------------------------------------
(* Mesh files: the inputs of parseSTL *)

\* Two triangles over the IEEE single-precision numbers 0, 1, 3 and -2.5, as
\* readFloatLE returns them: <<0,0,0,0>>, <<63,128,0,0>>, <<64,64,0,0>> and
\* <<192,32,0,0>>, most significant byte first.

BinaryTriangleA ==
    [normal |-> << <<0, 0, 0, 0>>, <<0, 0, 0, 0>>, <<63, 128, 0, 0>> >>,
     vertices |-> << << <<0, 0, 0, 0>>, <<0, 0, 0, 0>>, <<0, 0, 0, 0>> >>,
                     << <<63, 128, 0, 0>>, <<0, 0, 0, 0>>, <<0, 0, 0, 0>> >>,
                     << <<0, 0, 0, 0>>, <<64, 64, 0, 0>>, <<0, 0, 0, 0>> >> >>]

BinaryTriangleB ==
    [normal |-> << <<192, 32, 0, 0>>, <<0, 0, 0, 0>>, <<0, 0, 0, 0>> >>,
     vertices |-> << << <<64, 64, 0, 0>>, <<63, 128, 0, 0>>, <<0, 0, 0, 0>> >>,
                     << <<0, 0, 0, 0>>, <<192, 32, 0, 0>>, <<63, 128, 0, 0>> >>,
                     << <<64, 64, 0, 0>>, <<64, 64, 0, 0>>, <<192, 32, 0, 0>> >> >>]

BinaryTriangleLists == SeqsUpTo({BinaryTriangleA, BinaryTriangleB}, MaxRecords)

\* The binary format of a triangle list: 80 header bytes that the format
\* gives no meaning, the count as a little-endian uint32, and 50 bytes for
\* each triangle: twelve little-endian floats and two attribute bytes.
writeUInt32LE(value) ==
    << value % 256, (value \div 256) % 256, (value \div 65536) % 256,
       value \div 16777216 >>

writeFloatLE(value) == << value[4], value[3], value[2], value[1] >>

writeVector(v) == writeFloatLE(v[1]) \o writeFloatLE(v[2]) \o writeFloatLE(v[3])

writeRecord(triangle) ==
    writeVector(triangle.normal) \o writeVector(triangle.vertices[1])
    \o writeVector(triangle.vertices[2]) \o writeVector(triangle.vertices[3])
    \o <<0, 0>>

RECURSIVE writeRecords(_)
writeRecords(triangles) ==
    IF triangles = <<>>
    THEN <<>>
    ELSE writeRecord(Head(triangles)) \o writeRecords(Tail(triangles))

encodeBinarySTL(header, triangles) ==
    header \o writeUInt32LE(Len(triangles)) \o writeRecords(triangles)

\* Headers: a word followed by zero bytes up to 80 bytes.
PadHeader(word) == [k \in 1..HeaderBytes |-> IF k <= Len(word) THEN word[k] ELSE 0]

\* No text, "solid", "Solid", "solid" with the high bit of the s set, and a
\* name that begins with "soli".
HeaderWords ==
    { <<>>, solid, <<83, 111, 108, 105, 100>>, <<243, 111, 108, 105, 100>>,
      <<115, 111, 108, 105, 32>> }

Headers == { PadHeader(word) : word \in HeaderWords }

\* Text files.  Facet j of a file has the normal (j, 0, 1) and the vertices
\* (j, 0, 2.5), (j, 1, 2.5), (j, 2, 2.5); the lines are indented as exporters
\* indent them.  A malformation changes one numeric field of one line: line 0
\* is the facet normal line and lines 1 to 3 are the vertex lines.
MaxFacets == 2
MaxBlankLines == 2

DigitString(n) == << 48 + n >>

wellFormed == [kind |-> "none", facet |-> 0, line |-> 0, field |-> 0]

Malformations(k) ==
    [kind : {"letter", "suffix", "missing"}, facet : 1..k, line : 0..3, field : 1..3]

FieldsOf(j, line) ==
    IF line = 0
    THEN << DigitString(j), DigitString(0), DigitString(1) >>
    ELSE << DigitString(j), DigitString(line - 1), <<50, 46, 53>> >>

\* The field as the malformation leaves it: x, the field followed by x, or
\* nothing at all.
Malformed(fields, field, kind) ==
    IF kind = "missing"
    THEN SubSeq(fields, 1, field - 1) \o SubSeq(fields, field + 1, Len(fields))
    ELSE [fields EXCEPT ![field] = IF kind = "letter" THEN <<120>> ELSE @ \o <<120>>]

RECURSIVE JoinFields(_)
JoinFields(fields) ==
    IF fields = <<>> THEN <<>> ELSE Space \o Head(fields) \o JoinFields(Tail(fields))

NumericLine(j, line, mal) ==
    LET fields == IF mal.kind # "none" /\ mal.facet = j /\ mal.line = line
                  THEN Malformed(FieldsOf(j, line), mal.field, mal.kind)
                  ELSE FieldsOf(j, line)
    IN  IF line = 0
        THEN Space \o facetNormal \o JoinFields(fields)
        ELSE Space \o Space \o Space \o vertex \o JoinFields(fields)

FacetLines(j, mal) ==
    << NumericLine(j, 0, mal), Space \o Space \o outerLoop,
       NumericLine(j, 1, mal), NumericLine(j, 2, mal), NumericLine(j, 3, mal),
       Space \o Space \o endloop, Space \o endfacet >>

RECURSIVE FacetsLines(_, _, _)
FacetsLines(j, k, mal) ==
    IF j > k THEN <<>> ELSE FacetLines(j, mal) \o FacetsLines(j + 1, k, mal)

RECURSIVE JoinLines(_, _)
JoinLines(lines, eol) ==
    IF Len(lines) = 1
    THEN Head(lines)
    ELSE Head(lines) \o eol \o JoinLines(Tail(lines), eol)

RECURSIVE Repeat(_, _)
Repeat(s, n) == IF n = 0 THEN <<>> ELSE s \o Repeat(s, n - 1)

\* A text file of k facets: its lines joined by the line ending, the last
\* line with or without its line ending, and then blank lines.
TextFile(k, eol, finalNewline, blanks, mal) ==
    JoinLines(<< solid \o Space \o <<109>> >> \o FacetsLines(1, k, mal)
              \o << endsolid \o Space \o <<109>> >>, eol)
    \o (IF finalNewline THEN eol ELSE <<>>)
    \o Repeat(eol, blanks)

LineEndings == { LineFeed, CarriageReturn \o LineFeed, CarriageReturn }

WellFormedTextFiles ==
    { TextFile(k, eol, finalNewline, blanks, wellFormed) :
        k \in 0..MaxFacets, eol \in LineEndings,
        finalNewline \in BOOLEAN, blanks \in 0..MaxBlankLines }

MalformedTextFiles ==
    UNION { { TextFile(k, LineFeed, TRUE, 0, mal) : mal \in Malformations(k) } :
            k \in 1..MaxFacets }

\* Text files that end inside their only facet, after n of its seven lines.
TruncatedTextFiles ==
    { JoinLines(<< solid \o Space \o <<109>> >>
                \o SubSeq(FacetLines(1, wellFormed), 1, n), LineFeed) : n \in 1..6 }

\* Buffers that end before the fifth byte, or right after it.
ShortBuffers == { SubSeq(solid, 1, n) : n \in 0..5 }

MeshFiles ==
    WellFormedTextFiles \cup MalformedTextFiles \cup TruncatedTextFiles
    \cup ShortBuffers
    \cup { encodeBinarySTL(header, triangles) :
             header \in Headers, triangles \in BinaryTriangleLists }

-----------------------------------------------------------------------------
(* parseSTL and parseASCIISTL (stl.ts, lines 14-79) *)

InitSTL ==
    /\ st_buffer \in MeshFiles
    /\ st_offset = 0
    /\ st_numTriangles = 0
    /\ st_i = 0
    /\ st_triangles = <<>>
    /\ st_pc = "parseSTL"
    /\ st_lines = <<>>
    /\ st_called = <<>>
    /\ IdleRay /\ IdleOut /\ IdleSil /\ IdleMv /\ IdleParts /\ IdleMain /\ IdleCam
    /\ IdleView /\ IdleCentroid /\ IdleFind

\* Lines 18-24: the first five bytes decide which parser is called.
IsAsciiHeader(buffer) == toStringAscii(buffer, 0, 5) = solid

ParseSTL ==
    /\ st_pc = "parseSTL"
    /\ IF IsAsciiHeader(st_buffer)
       THEN /\ st_called' = Append(st_called, "parseASCIISTL")
            /\ st_pc' = "content"
            /\ UNCHANGED st_offset
       ELSE /\ st_called' = Append(st_called, "parseBinarySTL")
            /\ st_pc' = "header"
            /\ st_offset' = HeaderBytes
    /\ UNCHANGED <<st_buffer, st_numTriangles, st_i, st_triangles, st_lines>>
    /\ UNCHANGED notStl

\* Lines 28-32: the trimmed lines of the content.
trimmedLines(buffer) ==
    LET lines == split(toStringUtf8(buffer))
    IN  [k \in 1..Len(lines) |-> trim(lines[k])]

ParseAsciiLines ==
    /\ st_pc = "content"
    /\ st_lines' = trimmedLines(st_buffer)
    /\ st_i' = 0
    /\ st_pc' = "skip"
    /\ UNCHANGED <<st_buffer, st_offset, st_numTriangles, st_triangles, st_called>>
    /\ UNCHANGED notStl

\* Lines 35-37: one test of the loop that skips the lines before the first
\* facet.
ParseAsciiSkipHeader ==
    /\ st_pc = "skip"
    /\ IF st_i < Len(st_lines) /\ ~startsWith(st_lines[st_i + 1], facetNormal)
       THEN st_i' = st_i + 1 /\ st_pc' = "skip"
       ELSE st_i' = st_i /\ st_pc' = "facets"
    /\ UNCHANGED <<st_buffer, st_offset, st_numTriangles, st_triangles, st_lines,
                   st_called>>
    /\ UNCHANGED notStl

\* Lines 43-48 and 59-64: the three numbers of a line, after the first
\* `words` fields.
threeNumbers(line, words) ==
    LET parts == slice(splitWhiteSpace(line), words)
    IN  << parseFloatAt(parts, 0), parseFloatAt(parts, 1), parseFloatAt(parts, 2) >>

\* Lines 42-73: a facet.  The normal is read from the line, the next line is
\* skipped and the three lines after it are read as vertices; lines[i] is
\* undefined beyond the last line and vertexLine.split then throws a
\* TypeError.  The two lines after the vertices are skipped.
ParseAsciiFacet ==
    /\ st_pc = "facets"
    /\ st_i < Len(st_lines)
    /\ startsWith(st_lines[st_i + 1], facetNormal)
    /\ IF st_i + 2 + 3 > Len(st_lines)
       THEN /\ st_pc' = "threw"
            /\ UNCHANGED <<st_i, st_triangles>>
       ELSE /\ st_triangles' = Append(st_triangles,
                [normal |-> threeNumbers(st_lines[st_i + 1], 2),
                 vertices |-> [v \in 1..3 |-> threeNumbers(st_lines[st_i + 2 + v], 1)]])
            /\ st_i' = st_i + 7
            /\ st_pc' = "facets"
    /\ UNCHANGED <<st_buffer, st_offset, st_numTriangles, st_lines, st_called>>
    /\ UNCHANGED notStl

\* Lines 74-76: any other line is passed over.
ParseAsciiOtherLine ==
    /\ st_pc = "facets"
    /\ st_i < Len(st_lines)
    /\ ~startsWith(st_lines[st_i + 1], facetNormal)
    /\ st_i' = st_i + 1
    /\ UNCHANGED <<st_buffer, st_offset, st_numTriangles, st_triangles, st_pc,
                   st_lines, st_called>>
    /\ UNCHANGED notStl

\* Line 78: return { triangles }.
ParseAsciiReturn ==
    /\ st_pc = "facets"
    /\ st_i >= Len(st_lines)
    /\ st_pc' = "returned"
    /\ UNCHANGED <<st_buffer, st_offset, st_numTriangles, st_i, st_triangles,
                   st_lines, st_called>>
    /\ UNCHANGED notStl

NextSTL ==
    \/ ParseSTL
    \/ ParseAsciiLines
    \/ ParseAsciiSkipHeader
    \/ ParseAsciiFacet
    \/ ParseAsciiOtherLine
    \/ ParseAsciiReturn
    \/ ParseBinaryCount
    \/ ParseBinaryRecord
    \/ ParseBinaryReturn

SpecSTL == InitSTL /\ [][NextSTL]_vars

StlDone == st_pc \in {"returned", "threw"}

\* C11: the bytes that encode a triangle list in the binary format, whatever
\* the 80 header bytes, decode to the same triangles: the decoder returns,
\* with the same count, order, normals and vertices.
C11_BinaryRoundTrip ==
    \A header \in Headers, triangles \in BinaryTriangleLists :
        (StlDone /\ st_buffer = encodeBinarySTL(header, triangles)) =>
            /\ st_pc = "returned"
            /\ st_triangles = triangles

\* The round trip of the encodings whose header parseSTL does not read as
\* "solid": these reach parseBinarySTL and come back unchanged.
BinaryRoundTripOtherHeaders ==
    \A header \in Headers, triangles \in BinaryTriangleLists :
        (StlDone /\ st_buffer = encodeBinarySTL(header, triangles)
                 /\ ~IsAsciiHeader(header)) =>
            /\ st_pc = "returned"
            /\ st_called = <<"parseBinarySTL">>
            /\ st_triangles = triangles

BinaryRoundTripWitness ==
    /\ st_pc = "returned"
    /\ st_buffer = encodeBinarySTL(PadHeader(<<>>), <<BinaryTriangleA, BinaryTriangleB>>)
    /\ st_triangles = <<BinaryTriangleA, BinaryTriangleB>>

\* The numbers and the triangles that the facets of a text file denote.
Number(n) == [kind |-> "number", negative |-> FALSE, mantissa |-> n, exponent |-> 0]

TwoAndAHalf == [kind |-> "number", negative |-> FALSE, mantissa |-> 25, exponent |-> -1]

FacetTriangle(j) ==
    [normal |-> << Number(j), Number(0), Number(1) >>,
     vertices |-> [v \in 1..3 |-> << Number(j), Number(v - 1), TwoAndAHalf >>]]

FacetTriangles(k) == [j \in 1..k |-> FacetTriangle(j)]

\* C12: a well-formed text file of k facets decodes to exactly its k
\* triangles in file order, whether its lines end in LF, CRLF or CR alone,
\* with or without a final line ending and with any number of trailing blank
\* lines.
C12_TextLineEndings ==
    \A k \in 0..MaxFacets, eol \in LineEndings, finalNewline \in BOOLEAN,
       blanks \in 0..MaxBlankLines :
        (StlDone /\ st_buffer = TextFile(k, eol, finalNewline, blanks, wellFormed)) =>
            /\ st_pc = "returned"
            /\ st_triangles = FacetTriangles(k)

\* The same for the files whose lines end in LF or in CRLF.
TextLineFeedEndings ==
    \A k \in 0..MaxFacets, eol \in { LineFeed, CarriageReturn \o LineFeed },
       finalNewline \in BOOLEAN, blanks \in 0..MaxBlankLines :
        (StlDone /\ st_buffer = TextFile(k, eol, finalNewline, blanks, wellFormed)) =>
            /\ st_pc = "returned"
            /\ st_called = <<"parseASCIISTL">>
            /\ st_triangles = FacetTriangles(k)

TextLineFeedWitness ==
    /\ st_pc = "returned"
    /\ st_buffer = TextFile(2, CarriageReturn \o LineFeed, FALSE, 0, wellFormed)
    /\ st_triangles = FacetTriangles(2)

\* C13: when a numeric field of a facet normal line or of a vertex line is
\* missing or is no floating literal, parseASCIISTL fails with an error; it
\* returns no mesh, and so no triangle built from that line.
C13_MalformedLiteralFails ==
    \A k \in 1..MaxFacets : \A mal \in Malformations(k) :
        (StlDone /\ st_buffer = TextFile(k, LineFeed, TRUE, 0, mal)) =>
            st_pc = "threw"

\* What parseASCIISTL does with such a file: it returns all k triangles, and
\* the malformed field is NaN, or the number that the field begins with.
MalformedLiteralReturned ==
    \A k \in 1..MaxFacets : \A mal \in Malformations(k) :
        (StlDone /\ st_buffer = TextFile(k, LineFeed, TRUE, 0, mal)) =>
            /\ st_pc = "returned"
            /\ Len(st_triangles) = k
            /\ LET triangle == st_triangles[mal.facet]
                   numbers == IF mal.line = 0 THEN triangle.normal
                              ELSE triangle.vertices[mal.line]
                   expected == IF mal.line = 0 THEN FacetTriangle(mal.facet).normal
                               ELSE FacetTriangle(mal.facet).vertices[mal.line]
               IN  CASE mal.kind = "letter" -> numbers[mal.field] = NaN
                     [] mal.kind = "suffix" -> numbers = expected
                     [] mal.kind = "missing" -> numbers[3] = NaN

FirstFiveBytesAreSolid(buffer) == Len(buffer) >= 5 /\ SubSeq(buffer, 1, 5) = solid

\* C14: parseSTL calls exactly one parser: the text parser if the first five
\* bytes of the buffer are the characters of "solid", and the binary parser
\* for every other buffer, those shorter than five bytes included.
C14_FormatDetection ==
    st_pc # "parseSTL" =>
        /\ Len(st_called) = 1
        /\ st_called[1] = (IF FirstFiveBytesAreSolid(st_buffer)
                           THEN "parseASCIISTL" ELSE "parseBinarySTL")

\* The same for the buffers whose first five bytes are all under 128.
FormatDetectionSevenBit ==
    (st_pc # "parseSTL" /\ \A k \in 1..Min2(5, Len(st_buffer)) : st_buffer[k] < 128) =>
        /\ Len(st_called) = 1
        /\ st_called[1] = (IF FirstFiveBytesAreSolid(st_buffer)
                           THEN "parseASCIISTL" ELSE "parseBinarySTL")

-----------------------------------------------------------------------------
(* getPartsToRender, findModules and conventions (modules.ts, types.ts) *)

moduleWord == <<109, 111, 100, 117, 108, 101, 32>>

\* \w: the letters, the digits and the underscore.
WordChars == (48..57) \cup (65..90) \cup (97..122) \cup {95}

\* The line terminators after which ^ matches under the m flag.
LineTerminators == {10, 13, 8232, 8233}

\* types.ts, lines 17-21: what the first character of the capture group of
\* each convention matches: [A-Z], \w and [^_].
FirstChar(convention, c) ==
    CASE convention = "pascal" -> c \in 65..90
      [] convention = "all" -> c \in WordChars
      [] convention = "underscore" -> c # 95

\* The word characters the capture group takes after its first character:
\* \w+ in pascal and underscore, the rest of \w+ in all.
MinRest(convention) == IF convention = "all" THEN 0 ELSE 1

\* The number of word characters of the content from position p on.
WordRun(content, p) ==
    LET stops == { k \in p..Len(content) : content[k] \notin WordChars }
    IN  IF stops = {}
        THEN Len(content) - p + 1
        ELSE (CHOOSE k \in stops : \A j \in stops : k <= j) - p

\* The length of the match of the convention's expression at position p, 0
\* when it does not match there: ^, "module ", the first character of the
\* group and the longest run of word characters.
MatchLength(content, p, convention) ==
    LET c == p + Len(moduleWord)
    IN  IF /\ (p = 1 \/ content[p - 1] \in LineTerminators)
           /\ c <= Len(content)
           /\ SubSeq(content, p, c - 1) = moduleWord
           /\ FirstChar(convention, content[c])
           /\ WordRun(content, c + 1) >= MinRest(convention)
        THEN Len(moduleWord) + 1 + WordRun(content, c + 1)
        ELSE 0

\* modules.ts, lines 25-27: [...fileContent.matchAll(rgx)].map(g => g[1]),
\* the captures of the successive matches, each searched from the end of
\* the one before.
RECURSIVE findModulesFrom(_, _, _)
findModulesFrom(fileContent, from, convention) ==
    LET starts == { p \in from..Len(fileContent) :
                      MatchLength(fileContent, p, convention) > 0 }
    IN  IF starts = {}
        THEN <<>>
        ELSE LET p == CHOOSE k \in starts : \A j \in starts : k <= j
                 n == MatchLength(fileContent, p, convention)
             IN  << SubSeq(fileContent, p + Len(moduleWord), p + n - 1) >>
                 \o findModulesFrom(fileContent, p + n, convention)

findModules(fileContent, convention) == findModulesFrom(fileContent, 1, convention)

\* modules.ts, lines 7-23.
getPartsToRender(fileContent, convention) ==
    IF convention = "auto"
    THEN LET allModules == findModules(fileContent, "all")
             pascalModules == findModules(fileContent, "pascal")
             underscore == findModules(fileContent, "underscore")
         IN  IF Len(pascalModules) > 0 /\ Len(pascalModules) < Len(allModules)
             THEN pascalModules
             ELSE IF Len(underscore) > 0 /\ Len(underscore) < Len(allModules)
                  THEN underscore
                  ELSE allModules
    ELSE findModules(fileContent, convention)

\* Files: top-level module declarations, one on a line, with a nested
\* declaration (indented, so not at the start of its line) after each.  The
\* names are Alpha, alpha, _part1, part1 and B.
MaxModules == 3

ModuleNames ==
    { <<65, 108, 112, 104, 97>>, <<97, 108, 112, 104, 97>>,
      <<95, 112, 97, 114, 116, 49>>, <<112, 97, 114, 116, 49>>, <<66>> }

\* "() {" and " module In() {} }"
DeclarationBody ==
    <<40, 41, 32, 123>> \o LineFeed \o Space \o moduleWord
    \o <<73, 110, 40, 41, 32, 123, 125, 32, 125>>

RECURSIVE ScadFile(_)
ScadFile(names) ==
    IF names = <<>>
    THEN <<>>
    ELSE moduleWord \o Head(names) \o DeclarationBody \o LineFeed
         \o ScadFile(Tail(names))

ConventionOptions == {"auto", "pascal", "all", "underscore"}

InitParts ==
    /\ gp_fileContent \in { ScadFile(names) : names \in SeqsUpTo(ModuleNames, MaxModules) }
    /\ gp_convention \in ConventionOptions
    /\ gp_result = <<>>
    /\ gp_pc = "call"
    /\ IdleRay /\ IdleOut /\ IdleSil /\ IdleMv /\ IdleStl /\ IdleMain /\ IdleCam
    /\ IdleView /\ IdleCentroid /\ IdleFind

GetPartsToRender ==
    /\ gp_pc = "call"
    /\ gp_result' = getPartsToRender(gp_fileContent, gp_convention)
    /\ gp_pc' = "returned"
    /\ UNCHANGED <<gp_fileContent, gp_convention>>
    /\ UNCHANGED notParts

NextParts == GetPartsToRender

SpecParts == InitParts /\ [][NextParts]_vars

\* The names a file declares at top level, and those of them that a
\* predicate on the first character selects.
RECURSIVE SelectNames(_, _)
SelectNames(names, firsts) ==
    IF names = <<>>
    THEN <<>>
    ELSE (IF Head(names)[1] \in firsts THEN << Head(names) >> ELSE <<>>)
         \o SelectNames(Tail(names), firsts)

PascalNames(names) == SelectNames(names, 65..90)

UnderscoreNames(names) == SelectNames(names, {95})

\* C16: with convention 'underscore' getPartsToRender returns exactly the
\* top-level modules whose name begins with an underscore: _part1 and not
\* part1.
C16_UnderscoreConvention ==
    \A names \in SeqsUpTo(ModuleNames, MaxModules) :
        (gp_pc = "returned" /\ gp_convention = "underscore"
         /\ gp_fileContent = ScadFile(names)) =>
            gp_result = UnderscoreNames(names)

\* C15: with convention 'auto' getPartsToRender returns the Pascal-cased
\* modules if some but not all modules are Pascal-cased, otherwise the
\* modules named with an initial underscore if some but not all are so
\* named, otherwise every top-level module.
C15_AutoConvention ==
    \A names \in SeqsUpTo(ModuleNames, MaxModules) :
        (gp_pc = "returned" /\ gp_convention = "auto"
         /\ gp_fileContent = ScadFile(names)) =>
            gp_result =
                IF Len(PascalNames(names)) > 0 /\ Len(PascalNames(names)) < Len(names)
                THEN PascalNames(names)
                ELSE IF /\ Len(UnderscoreNames(names)) > 0
                        /\ Len(UnderscoreNames(names)) < Len(names)
                     THEN UnderscoreNames(names)
                     ELSE names

\* What the expression of 'underscore' selects: the names of two characters
\* or more that do not begin with an underscore.
RECURSIVE NotUnderscoreNames(_)
NotUnderscoreNames(names) ==
    IF names = <<>>
    THEN <<>>
    ELSE (IF Head(names)[1] # 95 /\ Len(Head(names)) >= 2
          THEN << Head(names) >> ELSE <<>>)
         \o NotUnderscoreNames(Tail(names))

UnderscoreConventionAsCoded ==
    \A names \in SeqsUpTo(ModuleNames, MaxModules) :
        (gp_pc = "returned" /\ gp_convention = "underscore"
         /\ gp_fileContent = ScadFile(names)) =>
            gp_result = NotUnderscoreNames(names)

\* 'auto' on the files that declare no name with an initial underscore and
\* no name of a single letter: the Pascal-cased names if there are some but
\* not only such names, every name otherwise.
AutoConventionWithoutUnderscores ==
    \A names \in SeqsUpTo(ModuleNames, MaxModules) :
        (gp_pc = "returned" /\ gp_convention = "auto"
         /\ gp_fileContent = ScadFile(names)
         /\ NotUnderscoreNames(names) = names) =>
            gp_result =
                IF Len(PascalNames(names)) > 0 /\ Len(PascalNames(names)) < Len(names)
                THEN PascalNames(names)
                ELSE names

-----------------------------------------------------------------------------
(* asyncMain (modules.ts, lines 60-146) *)

\* Inputs: two files, the options list, dry and zip, the conventions auto
\* and all, and no module or one module named on the command line.
MainFiles ==
    { ScadFile(<< <<65, 108, 112, 104, 97>>, <<97, 108, 112, 104, 97>> >>),
      ScadFile(<<>>) }

MainOptions ==
    [list : BOOLEAN, dry : BOOLEAN, zip : BOOLEAN, convention : {"auto", "all"},
     module : { <<>>, << <<112, 97, 114, 116, 49>> >> }]

InitMain ==
    /\ am_options \in MainOptions
    /\ am_fileContent \in MainFiles
    /\ am_tempDir = "null"
    /\ am_parts = <<>>
    /\ am_taskStatus = <<>>
    /\ am_pending = {}
    /\ am_dotCount = 0
    /\ am_armed = 0
    /\ am_tokenArmed = FALSE
    /\ am_status = <<>>
    /\ am_out = <<>>
    /\ am_calls = <<>>
    /\ am_fs = {}
    /\ am_rejected = {}
    /\ am_doneCalls = 0
    /\ am_stlFiles = <<>>
    /\ am_archive = <<>>
    /\ am_pc = "findOpenScad"
    /\ IdleRay /\ IdleOut /\ IdleSil /\ IdleMv /\ IdleStl /\ IdleParts /\ IdleCam
    /\ IdleView /\ IdleCentroid /\ IdleFind

\* Line 62: findOpenScad returns a path, or prints an error and ends the
\* process.
AmFindOpenScad ==
    /\ am_pc = "findOpenScad"
    /\ \E found \in BOOLEAN :
        IF found
        THEN am_pc' = "checkBackendSupport" /\ UNCHANGED am_out
        ELSE am_pc' = "exited" /\ am_out' = Append(am_out, <<"Unable to find OpenSCAD">>)
    /\ UNCHANGED <<am_options, am_fileContent, am_tempDir, am_parts, am_taskStatus,
                   am_pending, am_dotCount, am_armed, am_tokenArmed, am_status,
                   am_calls, am_fs, am_rejected, am_doneCalls, am_stlFiles, am_archive>>
    /\ UNCHANGED notMain

\* Lines 63-67: checkBackendSupport runs the executable with --help.
AmCheckBackendSupport ==
    /\ am_pc = "checkBackendSupport"
    /\ am_pc' = "options"
    /\ am_dotCount' = 0
    /\ UNCHANGED <<am_options, am_fileContent, am_tempDir, am_parts, am_taskStatus,
                   am_pending, am_armed, am_tokenArmed, am_status, am_out,
                   am_calls, am_fs, am_rejected, am_doneCalls, am_stlFiles, am_archive>>
    /\ UNCHANGED notMain

\* Lines 70-72: the modules that list mode prints.
listedPartsMutant(options, fileContent) ==
    IF Len(options.module) > 0
    THEN options.module
    ELSE getPartsToRender(fileContent, options.convention)

listedParts(options, fileContent) == getPartsToRender(fileContent, options.convention)

\* Lines 68-74: list mode.
AmList ==
    /\ am_pc = "options"
    /\ am_options.list
    /\ LET parts == listedParts(am_options, am_fileContent)
       IN  am_out' = am_out \o << <<"Discovered modules:">> >>
                     \o [k \in 1..Len(parts) |-> <<" * ", parts[k]>>]
    /\ am_pc' = "returned"
    /\ UNCHANGED <<am_options, am_fileContent, am_tempDir, am_parts, am_taskStatus,
                   am_pending, am_dotCount, am_armed, am_tokenArmed, am_status,
                   am_calls, am_fs, am_rejected, am_doneCalls, am_stlFiles, am_archive>>
    /\ UNCHANGED notMain

\* Lines 76-90: the temporary directory of zip mode and the render context.
AmCreateTempDir ==
    /\ am_pc = "options"
    /\ ~am_options.list
    /\ IF am_options.zip
       THEN am_tempDir' = "tmp" /\ am_fs' = am_fs \cup {"tempDir"}
       ELSE UNCHANGED <<am_tempDir, am_fs>>
    /\ am_pc' = "parts"
    /\ UNCHANGED <<am_options, am_fileContent, am_parts, am_taskStatus, am_pending,
                   am_dotCount, am_armed, am_tokenArmed, am_status, am_out,
                   am_calls, am_rejected, am_doneCalls, am_stlFiles, am_archive>>
    /\ UNCHANGED notMain

\* Lines 121-134: printStatus.  The lines it leaves on the terminal, and the
\* value it returns.
statusLines(taskStatus, dotCount) ==
    [k \in 1..Len(taskStatus) |->
        [name |-> taskStatus[k].name,
         text |-> IF taskStatus[k].done THEN "Done" ELSE "Working",
         dots |-> IF taskStatus[k].done THEN 0 ELSE dotCount]]

\* A status that is complete as soon as one task is done.
allDoneMutant(taskStatus) == \E k \in 1..Len(taskStatus) : taskStatus[k].done

\* A status that is never complete.
allDoneNever(taskStatus) == FALSE

allDone(taskStatus) == \A k \in 1..Len(taskStatus) : taskStatus[k].done

\* The path of the .scad file, as its segments.
ScadFilePath == <<"models", "parts.scad">>

\* A basename that takes the first segment of the path.
basenameMutant(path) == path[1]

\* path.basename: the last segment of a path.
basename(path) == path[Len(path)]

\* What processModule adds to ctx.stlFiles before its promise is fulfilled:
\* the path of the file it rendered, in the temporary directory when there is
\* one and beside the .scad file otherwise; nothing in a dry run.
renderedFiles(part, tempDir, options) ==
    IF options.dry
    THEN <<>>
    ELSE << <<IF tempDir = "null" THEN ScadFilePath[1] ELSE tempDir,
              [name |-> part, extension |-> "stl"]>> >>

\* Lines 92-109: the parts; then, in the executor of the promise, one
\* taskStatus entry and one processModule call for each part, the first
\* status and the first timer.
AmStartTasks ==
    /\ am_pc = "parts"
    /\ LET parts == IF Len(am_options.module) > 0
                    THEN am_options.module
                    ELSE getPartsToRender(am_fileContent, am_options.convention)
       IN  /\ am_parts' = parts
           /\ am_taskStatus' = [k \in 1..Len(parts) |-> [name |-> parts[k], done |-> FALSE]]
           /\ am_calls' = am_calls \o [k \in 1..Len(parts) |-> <<"processModule", parts[k]>>]
           /\ am_pending' = 1..Len(parts)
           /\ am_status' = statusLines(am_taskStatus', am_dotCount)
    /\ am_armed' = am_armed + 1
    /\ am_tokenArmed' = TRUE
    /\ am_pc' = "waiting"
    /\ UNCHANGED <<am_options, am_fileContent, am_tempDir, am_dotCount, am_out, am_fs,
                   am_rejected, am_doneCalls, am_stlFiles, am_archive>>
    /\ UNCHANGED notMain

\* Lines 111-119: recalc, run with `armed` timers armed and the given
\* taskStatus: the next dot, the status, and then done() or a new timer.
\* done() resolves the promise that asyncMain awaits; on a promise that is
\* resolved already it does nothing.
Recalc(taskStatus, armed, tokenArmed) ==
    /\ am_dotCount' = (am_dotCount + 1) % 4
    /\ am_status' = statusLines(taskStatus, am_dotCount')
    /\ IF allDone(taskStatus)
       THEN /\ am_doneCalls' = am_doneCalls + 1
            /\ am_pc' = IF am_pc = "waiting" THEN "zip" ELSE am_pc
            /\ am_armed' = armed
            /\ am_tokenArmed' = tokenArmed
       ELSE /\ am_doneCalls' = am_doneCalls
            /\ am_pc' = am_pc
            /\ am_armed' = armed + 1
            /\ am_tokenArmed' = TRUE

\* A clearTimeout that clears nothing.
clearTimeoutMutant(armed, tokenArmed) == armed

\* Line 103, clearTimeout(timeoutToken): the number of timers armed once the
\* timer of timeoutToken, if it has not fired, is cleared.
clearTimeout(armed, tokenArmed) == IF tokenArmed THEN armed - 1 ELSE armed

\* Lines 101-105: the promise of processModule for part k is fulfilled: the
\* task is done, the timer of timeoutToken is cleared and recalc runs.
AmTaskDone ==
    /\ am_pc # "exited"
    /\ \E k \in am_pending :
        /\ am_pending' = am_pending \ {k}
        /\ am_stlFiles' = am_stlFiles \o renderedFiles(am_parts[k], am_tempDir, am_options)
        /\ am_taskStatus' = [am_taskStatus EXCEPT ![k].done = TRUE]
        /\ Recalc(am_taskStatus', clearTimeout(am_armed, am_tokenArmed), FALSE)
    /\ UNCHANGED <<am_options, am_fileContent, am_tempDir, am_parts, am_out,
                   am_calls, am_fs, am_rejected, am_archive>>
    /\ UNCHANGED notMain

\* Line 101: the promise of processModule for part k is rejected.  then() was
\* given no handler for that: the callback does not run, and the rejection,
\* which nothing handles, ends the process or is only reported, as Node is
\* set up.
AmTaskRejected ==
    /\ am_pc # "exited"
    /\ \E k \in am_pending :
        /\ am_pending' = am_pending \ {k}
        /\ am_rejected' = am_rejected \cup {k}
    /\ \E fatal \in BOOLEAN :
        IF fatal
        THEN am_pc' = "exited" /\ am_armed' = 0 /\ am_tokenArmed' = FALSE
        ELSE UNCHANGED <<am_pc, am_armed, am_tokenArmed>>
    /\ UNCHANGED <<am_options, am_fileContent, am_tempDir, am_parts, am_taskStatus,
                   am_dotCount, am_status, am_out, am_calls, am_fs, am_doneCalls,
                   am_stlFiles, am_archive>>
    /\ UNCHANGED notMain

\* Lines 109, 117: an armed timer fires and recalc runs.
AmTimer ==
    /\ am_pc # "exited"
    /\ am_armed > 0
    /\ \E ofToken \in BOOLEAN :
        /\ ofToken => am_tokenArmed
        /\ ~ofToken => am_armed > (IF am_tokenArmed THEN 1 ELSE 0)
        /\ Recalc(am_taskStatus, am_armed - 1, am_tokenArmed /\ ~ofToken)
    /\ UNCHANGED <<am_options, am_fileContent, am_tempDir, am_parts, am_taskStatus,
                   am_pending, am_out, am_calls, am_fs, am_rejected, am_stlFiles,
                   am_archive>>
    /\ UNCHANGED notMain

\* createZipFile (part_002 lines 59-66): the files handed to the archive,
\* each with the name of its entry.
archiveEntries(scadFilePath, stlFiles) ==
    [k \in 1..Len(stlFiles) |-> [file |-> stlFiles[k], name |-> basename(stlFiles[k])]]
    \o << [file |-> scadFilePath, name |-> basename(scadFilePath)] >>

\* Lines 136-145: createZipFile, or what it would create; then Done!.
\* createZipFile opens the zip file for writing before anything can fail.
AmZip ==
    /\ am_pc = "zip"
    /\ IF am_options.zip /\ am_tempDir # "null" /\ ~am_options.dry
       THEN /\ am_calls' = Append(am_calls, <<"createZipFile", am_tempDir>>)
            /\ am_fs' = am_fs \cup {"zip"}
            /\ am_archive' = am_archive \o archiveEntries(ScadFilePath, am_stlFiles)
            /\ \E ok \in BOOLEAN :
                IF ok
                THEN am_out' = Append(am_out, <<"Done!">>) /\ am_pc' = "returned"
                ELSE am_out' = am_out /\ am_pc' = "threw"
       ELSE /\ am_out' = am_out
                \o (IF am_options.zip /\ am_options.dry
                    THEN << <<"Would create zip file">> >> ELSE <<>>)
                \o << <<"Done!">> >>
            /\ am_pc' = "returned"
            /\ UNCHANGED <<am_calls, am_fs, am_archive>>
    /\ UNCHANGED <<am_options, am_fileContent, am_tempDir, am_parts, am_taskStatus,
                   am_pending, am_dotCount, am_armed, am_tokenArmed, am_status,
                   am_rejected, am_doneCalls, am_stlFiles>>
    /\ UNCHANGED notMain

NextMain ==
    \/ AmFindOpenScad
    \/ AmCheckBackendSupport
    \/ AmList
    \/ AmCreateTempDir
    \/ AmStartTasks
    \/ AmTaskDone
    \/ AmTaskRejected
    \/ AmTimer
    \/ AmZip

SpecMain == InitMain /\ [][NextMain]_vars

CreateZipFileCalled == \E k \in 1..Len(am_calls) : am_calls[k][1] = "createZipFile"

ProcessModuleCalled == \E k \in 1..Len(am_calls) : am_calls[k][1] = "processModule"

\* C17: with options.dry set asyncMain never calls createZipFile and creates
\* nothing in the file system, neither a zip file nor a temporary directory,
\* whatever options.zip is.
C17_DryRunCreatesNothing ==
    am_options.dry => (~CreateZipFileCalled /\ am_fs = {})

\* What does hold of a dry run: createZipFile is not called and no zip file
\* is created; the temporary directory of zip mode is created all the same.
DryRunCreatesNoZip ==
    am_options.dry =>
        /\ ~CreateZipFileCalled
        /\ "zip" \notin am_fs
        /\ (am_pc \in {"parts", "waiting", "zip", "returned"} /\ am_options.zip
            /\ ~am_options.list) => "tempDir" \in am_fs

\* C18: with options.list set asyncMain creates no temporary directory,
\* starts no processModule task, arms no timer and creates no zip file; when
\* it returns it has printed the modules that the naming convention selects,
\* options.module notwithstanding, and nothing else.
C18_ListMode ==
    am_options.list =>
        /\ am_tempDir = "null"
        /\ am_fs = {}
        /\ am_calls = <<>>
        /\ am_taskStatus = <<>> /\ am_pending = {} /\ am_status = <<>>
        /\ am_armed = 0 /\ ~am_tokenArmed
        /\ am_pc \notin {"parts", "waiting", "zip", "threw"}
        /\ am_pc = "returned" =>
             LET parts == getPartsToRender(am_fileContent, am_options.convention)
             IN  am_out = << <<"Discovered modules:">> >>
                          \o [k \in 1..Len(parts) |-> <<" * ", parts[k]>>]

\* C18 witness: list mode has returned, with a module named on the command
\* line that is not among the modules printed.
C18_Witness ==
    /\ am_options.list
    /\ am_pc = "returned"
    /\ Len(am_options.module) = 1
    /\ Len(am_out) = 2
    /\ am_out[2] = <<" * ", <<65, 108, 112, 104, 97>> >>

-----------------------------------------------------------------------------
(* getRayForPixel for a fixed camera (orthographicCamera.ts, lines 51-82) *)

\* Cameras: the top, side and front cameras that generateMultiview builds
\* for bounds of extent 2 and of extent 0 around two centres, and cameras
\* whose up vector is collinear with forward; the scale is 2 or 4.  Images:
\* every size from 2 x 2 up to CamMaxSize x CamMaxSize.
CamMaxSize == 4

CamViews ==
    UNION { { views(center, maxDimension)[i] : i \in {1, 3, 4} } :
            center \in { Vec(0, 0, 0), Vec(1, -2, 3) }, maxDimension \in {0, 2} }
    \cup { [position |-> Vec(0, 0, 5), target |-> Vec(0, 0, 0), up |-> Vec(0, 0, 1)],
           [position |-> Vec(1, 0, 0), target |-> Vec(4, 0, 0), up |-> Vec(-1, 0, 0)] }

InitCamera ==
    /\ cam_image \in (2..CamMaxSize) \X (2..CamMaxSize)
    /\ \E view \in CamViews, scale \in { Frac(2, 1), Frac(4, 1) } :
        cam_camera = createOrthographicCamera(view.position, view.target, view.up,
                                              cam_image[1], cam_image[2], scale)
    /\ cam_rays = <<>>
    /\ IdleRay /\ IdleOut /\ IdleSil /\ IdleMv /\ IdleStl /\ IdleParts /\ IdleMain
    /\ IdleView /\ IdleCentroid /\ IdleFind

\* One call of getRayForPixel for a pixel of the image; the call before it is
\* kept beside it.
GetRayForPixel ==
    /\ \E x \in 0..(cam_image[1] - 1), y \in 0..(cam_image[2] - 1) :
        cam_rays' = << [pixel |-> <<x, y>>,
                        ray |-> getRayForPixel(cam_camera, x, y, cam_image[1],
                                               cam_image[2])] >>
                    \o SubSeq(cam_rays, 1, Min2(1, Len(cam_rays)))
    /\ UNCHANGED <<cam_camera, cam_image>>
    /\ UNCHANGED notCam

NextCamera == GetRayForPixel

SpecCamera == InitCamera /\ [][NextCamera]_vars

\* The camera's basis as the claim names it.
forwardVector(camera) == normalize(subtract(camera.target, camera.position))

rightVector(camera) == normalize(cross(forwardVector(camera), camera.up))

upVector(camera) == cross(rightVector(camera), forwardVector(camera))

\* The offset lo + (pixel / size) * (hi - lo) as a fraction.
WorldOffset(lo, hi, pixel, size) ==
    Frac(lo.num * size + pixel * (hi.num - lo.num), size * lo.den)

\* C19: for a fixed camera and image size every ray that getRayForPixel
\* returns has the camera's forward vector, normalize(target - position), as
\* its direction, whatever the pixel; its origin is camera.position plus the
\* pixel's offsets along the right and up vectors, and so differs from
\* camera.position by a vector perpendicular to forward.
C19_ParallelRays ==
    \A k \in 1..Len(cam_rays) :
        LET ray == cam_rays[k].ray
            pixel == cam_rays[k].pixel
            worldX == WorldOffset(cam_camera.left, cam_camera.right, pixel[1], cam_image[1])
            worldY == WorldOffset(cam_camera.bottom, cam_camera.top, pixel[2], cam_image[2])
            offset == subtract(ray.origin, cam_camera.position)
            along == add(multiply(rightVector(cam_camera), worldX.num * worldY.den),
                         multiply(upVector(cam_camera), worldY.num * worldX.den))
        IN  /\ ray.direction = forwardVector(cam_camera)
            /\ ray.direction = cam_rays[1].ray.direction
            /\ multiply(offset, worldX.den * worldY.den) = along
            /\ dot(offset, forwardVector(cam_camera)) = 0

\* C19 witness: two calls for different pixels of a camera with a proper
\* basis: the origins differ and the directions are the same unit vector.
C19_Witness ==
    /\ Len(cam_rays) = 2
    /\ cam_rays[1].pixel[1] # cam_rays[2].pixel[1]
    /\ cam_rays[1].pixel[2] # cam_rays[2].pixel[2]
    /\ cam_rays[1].ray.origin # cam_rays[2].ray.origin
    /\ cam_rays[1].ray.direction = cam_rays[2].ray.direction
    /\ dot(cam_rays[1].ray.direction, cam_rays[1].ray.direction) = 1
    /\ rightVector(cam_camera) # Vec(0, 0, 0)

\* A text file that ends before the third vertex line of a facet makes
\* parseASCIISTL throw; one that ends after it is accepted.
TruncatedFacet ==
    \A n \in 1..6 :
        (StlDone /\ st_buffer = JoinLines(<< solid \o Space \o <<109>> >>
                                          \o SubSeq(FacetLines(1, wellFormed), 1, n),
                                          LineFeed)) =>
            IF n < 5
            THEN st_pc = "threw"
            ELSE st_pc = "returned" /\ st_triangles = FacetTriangles(1)


-----------------------------------------------------------------------------
(* renderView on a tile of any size (multiview, part_004 lines 142-220) *)

\* The largest width and height of a tile.
MaxTile == 6

\* The name of the view does not matter to the coverage of the tile.
TileView == "tile"

InitView ==
    /\ rv_size \in (1..MaxTile) \X (1..MaxTile)
    /\ rv_xy = <<0, 0>>
    /\ rv_data = createImageData(rv_size[1], rv_size[2])
    /\ rv_count = [k \in 0..(rv_size[1] * rv_size[2] - 1) |-> 0]
    /\ rv_outside = {}
    /\ rv_pc = "render"
    /\ IdleRay /\ IdleOut /\ IdleSil /\ IdleMv /\ IdleStl /\ IdleParts /\ IdleMain
    /\ IdleCam /\ IdleCentroid /\ IdleFind

\* One pass of the body of the loops of lines 166-216: the sample at (x, y)
\* and its block; then x += step, and y += step at the end of a row.
RenderSample ==
    /\ rv_pc = "render"
    /\ LET width == rv_size[1]  height == rv_size[2]
           x == rv_xy[1]  y == rv_xy[2]
           written == blockIndices(width, height, x, y)
           nextX == IF x + step < width THEN x + step ELSE 0
           nextY == IF x + step < width THEN y ELSE y + step
       IN  /\ rv_data' = fillBlock(rv_data, x, y, sampleColor(TileView, x, y))
           /\ rv_count' = [k \in DOMAIN rv_count |->
                              IF k \in written THEN rv_count[k] + 1 ELSE rv_count[k]]
           /\ rv_outside' = rv_outside \cup (written \ DOMAIN rv_count)
           /\ rv_xy' = <<nextX, nextY>>
           /\ rv_pc' = IF nextY < height THEN "render" ELSE "put"
    /\ UNCHANGED rv_size
    /\ UNCHANGED notView

\* Line 219: the tile is handed to the canvas and renderView returns.
RenderReturn ==
    /\ rv_pc = "put"
    /\ rv_pc' = "returned"
    /\ UNCHANGED <<rv_size, rv_xy, rv_data, rv_count, rv_outside>>
    /\ UNCHANGED notView

NextView == RenderSample \/ RenderReturn

SpecView == InitView /\ [][NextView]_vars

\* C21: when renderView has returned, for a tile of any width and height from
\* 1 up, every pixel (x, y) of the tile has been written exactly once, has
\* alpha 255 and the colour of the sample at (2 * floor(x/2), 2 * floor(y/2)),
\* and no pixel index beyond the data has been written.
C21_TileCoverage ==
    rv_pc = "returned" =>
        /\ rv_outside = {}
        /\ \A x \in 0..(rv_size[1] - 1), y \in 0..(rv_size[2] - 1) :
              LET k == y * rv_size[1] + x
              IN  /\ rv_count[k] = 1
                  /\ rv_data.data[k].alpha = 255
                  /\ rv_data.data[k].color =
                        sampleColor(TileView, 2 * (x \div 2), 2 * (y \div 2))

\* A tile of odd width and odd height, larger than one block, has been
\* rendered.
C21_Witness ==
    /\ rv_pc = "returned"
    /\ rv_size[1] % 2 = 1 /\ rv_size[1] > step
    /\ rv_size[2] % 2 = 1 /\ rv_size[2] > step

\* The tile of one pixel has been rendered.
OnePixelTileRendered ==
    rv_pc = "returned" /\ rv_size = <<1, 1>> /\ rv_count[0] = 1


-----------------------------------------------------------------------------
(* The order of rendering in generateMultiview (part_004 lines 106-139) *)

\* The four views in document order; the 3/4 view is named "perspective".
ViewOrder == <<"top", "perspective", "side", "front">>

ViewNumber(name) == CHOOSE j \in DOMAIN ViewOrder : ViewOrder[j] = name

\* The sample at (bx, by) comes before the sample at (x, y) in row-major
\* order.
RowMajorBefore(bx, by, x, y) == by < y \/ (by = y /\ bx < x)

\* C22: the views are rendered in the order top, 3/4, side, front; while a
\* view is being rendered the tiles of the views before it, and of no
\* other view, are on the canvas; within the view the samples taken so far
\* are those that come before the current one in row-major order; and the
\* image is encoded and the file written only when the last view and the
\* separator bars are on the canvas.
C22_RenderOrdering ==
    /\ mv_pc \in {"views", "render", "put"} =>
         /\ [j \in DOMAIN mv_setup.views |-> mv_setup.views[j].name] = ViewOrder
         /\ \A p \in DOMAIN mv_canvas.pixels :
               (mv_canvas.pixels[p].color.kind = "sample")
                   <=> (ViewNumber(QuadrantView(p)) < mv_i)
    /\ mv_pc \in {"render", "put"} =>
         \A k \in DOMAIN mv_data.data :
             LET bx == step * ((k % mv_data.width) \div step)
                 by == step * ((k \div mv_data.width) \div step)
             IN  IF RowMajorBefore(bx, by, mv_xy[1], mv_xy[2])
                 THEN mv_data.data[k].color =
                          sampleColor(ViewOrder[mv_i], bx, by)
                 ELSE mv_data.data[k] = transparent
    /\ mv_pc \in {"start", "views", "render", "put", "encode"} =>
         mv_file = mv_input.file
    /\ mv_pc \in {"open", "write", "done"} =>
         /\ mv_i > Len(mv_setup.views)
         /\ mv_buffer = mv_canvas
         /\ \A p \in DOMAIN mv_buffer.pixels :
               InBar(p) \/ mv_buffer.pixels[p].color.kind = "sample"
         /\ mv_buffer.pixels[<<viewWidth, viewHeight>>] = black

\* C22 witness: the side view is being rendered, in the middle of its second
\* row of samples, with the top and 3/4 tiles on the canvas.
C22_Witness ==
    /\ mv_pc = "render"
    /\ mv_i = 3
    /\ mv_xy = <<step, step>>
    /\ mv_canvas.pixels[<<viewWidth, 0>>].color = sampleColor("perspective", 0, 0)
    /\ mv_canvas.pixels[<<0, viewHeight>>] = transparent
    /\ mv_data.data[0].color = sampleColor("side", 0, 0)

\* The image has been written after the four views.
WrittenAfterFourViews ==
    mv_pc = "done" /\ mv_i = 5 /\ mv_file.image = "new"


-----------------------------------------------------------------------------
(* castRay: the early exit and the order of the triangles *)

\* The triangles at which the scan breaks: a hit strictly closer than every
\* earlier hit, at a distance under 0.001.
BreakIndices(ray, triangles) ==
    { i \in HitIndices(ray, triangles) :
        /\ FracLt(HitDistance(ray, triangles, i), EarlyExitDistance)
        /\ \A j \in HitIndices(ray, triangles) :
              j < i => FracLt(HitDistance(ray, triangles, i),
                              HitDistance(ray, triangles, j)) }

\* The number of triangles scanned: up to the first break, or all.
Scanned(ray, triangles) ==
    IF BreakIndices(ray, triangles) = {}
    THEN Len(triangles)
    ELSE CHOOSE i \in BreakIndices(ray, triangles) :
            \A j \in BreakIndices(ray, triangles) : i <= j

\* The earliest of the nearest hits among the first n triangles, null when
\* none of them is hit.
EarliestNearest(ray, triangles, n) ==
    LET hits == { i \in HitIndices(ray, triangles) : i <= n }
    IN  IF hits = {}
        THEN null
        ELSE LET best == CHOOSE i \in hits : \A j \in hits :
                            \/ FracLt(HitDistance(ray, triangles, i),
                                      HitDistance(ray, triangles, j))
                            \/ (FracEq(HitDistance(ray, triangles, i),
                                       HitDistance(ray, triangles, j)) /\ i <= j)
             IN  intersectRayTriangle(ray, triangles[best])

\* The same triangles in every order.
Orders(triangles) ==
    { [i \in DOMAIN triangles |-> triangles[f[i]]] :
        f \in { g \in [DOMAIN triangles -> DOMAIN triangles] :
                   \A a, b \in DOMAIN triangles : g[a] = g[b] => a = b } }

SomeVeryCloseHit(ray, triangles) == ~NoVeryCloseHit(ray, triangles)

\* The scan stops where the claim says and returns the earliest nearest hit
\* of what it scanned.
StopsAtFirstVeryCloseHit ==
    cr_pc = "done" =>
        /\ cr_i - 1 = Scanned(cr_ray, cr_triangles)
        /\ cr_closestHit = EarliestNearest(cr_ray, cr_triangles, cr_i - 1)
        /\ cr_closestHit = castRay(cr_ray, cr_triangles)

SameDistance(hitA, hitB) ==
    IF hitA = null \/ hitB = null
    THEN hitA = null /\ hitB = null
    ELSE FracEq(hitA.distance, hitB.distance)

\* C23 as stated: the scan stops at the first triangle whose hit is strictly
\* closer than every earlier hit and closer than 0.001, the result is the
\* earliest nearest hit of the triangles scanned, and the same triangles in
\* another order return a different hit only when some hit is closer than
\* 0.001.
C23_EarlyExitAsStated ==
    /\ StopsAtFirstVeryCloseHit
    /\ cr_pc = "done" =>
         \A other \in Orders(cr_triangles) :
             castRay(cr_ray, other) # cr_closestHit
                 => SomeVeryCloseHit(cr_ray, cr_triangles)

\* C23 amended: as above, but another order of the same triangles returns a
\* hit at a different distance (or a hit instead of none) only when some hit
\* is closer than 0.001; hits at the same distance on different triangles
\* are told apart by the order alone.
C23_EarlyExit ==
    /\ StopsAtFirstVeryCloseHit
    /\ cr_pc = "done" =>
         \A other \in Orders(cr_triangles) :
             ~SameDistance(castRay(cr_ray, other), cr_closestHit)
                 => SomeVeryCloseHit(cr_ray, cr_triangles)

\* C23 witness: the scan broke off before the end of the list, a triangle
\* after the break is hit nearer than the result, and another order of the
\* triangles returns a hit at another distance.
C23_Witness ==
    /\ cr_pc = "done"
    /\ cr_i - 1 < Len(cr_triangles)
    /\ \E j \in HitIndices(cr_ray, cr_triangles) :
          j >= cr_i /\ FracLt(HitDistance(cr_ray, cr_triangles, j), cr_closestHit.distance)
    /\ \E other \in Orders(cr_triangles) :
          ~SameDistance(castRay(cr_ray, other), cr_closestHit)

\* Two triangles are hit at the same distance, on the edge they share, and
\* no hit is closer than 0.001: the hit returned has the normal of whichever
\* comes first.
TieDecidedByOrder ==
    /\ cr_pc = "done"
    /\ NoVeryCloseHit(cr_ray, cr_triangles)
    /\ \E other \in Orders(cr_triangles) :
          /\ castRay(cr_ray, other) # cr_closestHit
          /\ SameDistance(castRay(cr_ray, other), cr_closestHit)


-----------------------------------------------------------------------------
(* intersectRayTriangle on a ray aimed at the centroid (part_003 lines 93-164) *)

\* The units of the coordinates: whole numbers and thousandths.
Units == {1, 1000}

\* Triangles in the planes of the axes whose centroid has whole coordinates,
\* with legs of 3, 6 and 9: right, obtuse, away from the origin, and wound
\* either way.
CentroidTriangles ==
    { Tri(<<0, 0, 1>>, <<0, 0, 0>>, <<3, 0, 0>>, <<0, 3, 0>>),
      Tri(<<0, 0, 1>>, <<0, 0, 0>>, <<6, 0, 0>>, <<0, 6, 0>>),
      Tri(<<0, 0, 1>>, <<0, 0, 3>>, <<9, 0, 3>>, <<-3, 3, 3>>),
      Tri(<<0, 0, 1>>, <<3, 3, 3>>, <<6, 3, 3>>, <<3, 6, 3>>),
      Tri(<<0, 0, -1>>, <<0, 0, 0>>, <<0, 3, 0>>, <<3, 0, 0>>),
      Tri(<<1, 0, 0>>, <<0, 0, 0>>, <<0, 3, 0>>, <<0, 0, 3>>),
      Tri(<<1, 0, 0>>, <<2, 0, 0>>, <<2, 6, 0>>, <<2, 0, 6>>),
      Tri(<<0, -1, 0>>, <<0, 0, 0>>, <<6, 0, 0>>, <<0, 0, 6>>),
      Tri(<<0, 1, 0>>, <<0, -3, 0>>, <<0, -3, 3>>, <<3, -3, 0>>) }

\* How far from the plane the ray starts, in units.
CentroidDistances == {1, 2, 5, 12, 40}

triangleCentroid(triangle) ==
    LET v0 == VertexVec(triangle.vertices[1])
        v1 == VertexVec(triangle.vertices[2])
        v2 == VertexVec(triangle.vertices[3])
    IN  Vec((v0.x + v1.x + v2.x) \div 3, (v0.y + v1.y + v2.y) \div 3,
            (v0.z + v1.z + v2.z) \div 3)

\* Twice the area of the triangle, in units squared: |edge1 x edge2| for a
\* triangle in a plane of the axes.
doubleArea(triangle) ==
    LET v0 == VertexVec(triangle.vertices[1])
        c == cross(subtract(VertexVec(triangle.vertices[2]), v0),
                   subtract(VertexVec(triangle.vertices[3]), v0))
    IN  Abs(c.x) + Abs(c.y) + Abs(c.z)

\* The ray that starts distance units off the plane, on the side the normal
\* points to, and runs against the normal to the centroid.
centroidRay(triangle, distance) ==
    LET normal == VertexVec(triangle.normal)
    IN  [origin |-> add(triangleCentroid(triangle), multiply(normal, distance)),
         direction |-> multiply(normal, -1)]

InitCentroid ==
    /\ ct_unit \in Units
    /\ ct_triangle \in CentroidTriangles
    /\ \E distance \in CentroidDistances : ct_ray = centroidRay(ct_triangle, distance)
    /\ ct_hit = null
    /\ ct_pc = "call"
    /\ IdleRay /\ IdleOut /\ IdleSil /\ IdleMv /\ IdleStl /\ IdleParts /\ IdleMain
    /\ IdleCam /\ IdleView /\ IdleFind

\* intersectRayTriangle(ray, triangle).
IntersectCentroidRay ==
    /\ ct_pc = "call"
    /\ ct_hit' = intersectRayTriangleIn(ct_unit, ct_ray, ct_triangle)
    /\ ct_pc' = "returned"
    /\ UNCHANGED <<ct_unit, ct_triangle, ct_ray>>
    /\ UNCHANGED notCentroid

NextCentroid == IntersectCentroidRay

SpecCentroid == InitCentroid /\ [][NextCentroid]_vars

\* Lines 129-140: u and v of the ray on the triangle, as the pair of their
\* numerators over the determinant made positive.
barycentric(ray, triangle) ==
    LET v0 == VertexVec(triangle.vertices[1])
        edge1 == subtract(VertexVec(triangle.vertices[2]), v0)
        edge2 == subtract(VertexVec(triangle.vertices[3]), v0)
        h == cross(ray.direction, edge2)
        a == dot(edge1, h)
        s == subtract(ray.origin, v0)
        q == cross(s, edge1)
        sgn == IF a < 0 THEN -1 ELSE 1
    IN  [u |-> sgn * dot(s, h), v |-> sgn * dot(ray.direction, q), den |-> sgn * a]

\* C24: a ray that starts off the plane of a non-degenerate triangle and runs
\* along the inward normal to the centroid is accepted: intersectRayTriangle
\* returns a hit with u >= 0, v >= 0, u + v <= 1 and distance > 0.
C24_CentroidHit ==
    ct_pc = "returned" =>
        /\ ct_hit # null
        /\ ct_hit.distance.num > 0 /\ ct_hit.distance.den > 0
        /\ LET b == barycentric(ct_ray, ct_triangle)
           IN  b.u >= 0 /\ b.v >= 0 /\ b.u + b.v <= b.den

\* What the code does: the ray is accepted when twice the triangle's area is
\* at least 0.00001 (and the origin is more than 0.00001 off the plane).
CentroidHitOfLargeTriangles ==
    ct_pc = "returned" =>
        (ct_hit # null) <=>
            (doubleArea(ct_triangle) * ParallelEpsilon.den
                >= ParallelEpsilon.num * ct_unit * ct_unit)

\* The triangle with legs of 0.003 is missed by the ray to its centroid.
SmallTriangleMissed ==
    /\ ct_pc = "returned"
    /\ ct_unit = 1000
    /\ doubleArea(ct_triangle) = 9
    /\ ct_hit = null

\* The same vertices in whole units are hit.
LargeTriangleHit ==
    /\ ct_pc = "returned"
    /\ ct_unit = 1
    /\ doubleArea(ct_triangle) = 9
    /\ ct_hit # null
    /\ ct_hit.distance = Frac(9 * 12, 9)


-----------------------------------------------------------------------------
(* The bounding box pre-check of intersectRayTriangle (part_003 lines 96-117) *)

\* castRay with the pre-check removed from intersectRayTriangle.
RECURSIVE castRayPlainFrom(_, _, _, _)
castRayPlainFrom(ray, triangles, i, closestHit) ==
    IF i > Len(triangles)
    THEN closestHit
    ELSE LET hit == MollerTrumbore(ray, triangles[i])
         IN  IF Closer(hit, closestHit)
             THEN IF EarlyExit(hit)
                  THEN hit
                  ELSE castRayPlainFrom(ray, triangles, i + 1, hit)
             ELSE castRayPlainFrom(ray, triangles, i + 1, closestHit)

\* Origins all around the triangles, for rays with the direction of the ray
\* being cast.
ProbeCoordinates == {-2, 1, 5}

ProbeRays ==
    { [origin |-> Vec(x, y, z), direction |-> cr_ray.direction] :
        x \in ProbeCoordinates, y \in ProbeCoordinates, z \in ProbeCoordinates }

\* C25: whenever the bounding box pre-check rejects a ray, Moller-Trumbore
\* returns null for it too, so intersectRayTriangle without the pre-check
\* returns the same value (for the ray being cast and every triangle of the
\* scene, and for the probe rays and the triangle the scan is at); and
\* castRay returns what it would return without the pre-check.
C25_PreCheckSound ==
    /\ \A i \in DOMAIN cr_triangles :
         \A ray \in (IF i = cr_i THEN ProbeRays ELSE {}) \cup {cr_ray} :
             /\ BoundingBoxRejects(ray, cr_triangles[i])
                    => MollerTrumbore(ray, cr_triangles[i]) = null
             /\ intersectRayTriangle(ray, cr_triangles[i])
                    = MollerTrumbore(ray, cr_triangles[i])
    /\ cr_pc = "done" =>
         cr_closestHit = castRayPlainFrom(cr_ray, cr_triangles, 1, null)

FarFromBounds(ray, triangle) == BoundingBoxRejectsFar(1, ray, triangle)

\* C25 witness: a finished scan in which the pre-check rejected one triangle
\* and let through a ray that starts far from another triangle's bounds and
\* hits it.
C25_Witness ==
    /\ cr_pc = "done"
    /\ \E i, j \in DOMAIN cr_triangles :
          /\ BoundingBoxRejects(cr_ray, cr_triangles[i])
          /\ FarFromBounds(cr_ray, cr_triangles[j])
          /\ intersectRayTriangle(cr_ray, cr_triangles[j]) # null
          /\ cr_closestHit = intersectRayTriangle(cr_ray, cr_triangles[j])


-----------------------------------------------------------------------------
(* The status loop of asyncMain (modules.ts lines 92-134) *)

WaitResolved == am_doneCalls > 0

\* C26: done() is called only when every entry of taskStatus is marked done
\* and every processModule promise has been fulfilled; a task whose promise
\* was rejected is never marked done, and done() is never called then; done()
\* is called at most once; asyncMain goes on past the wait only through it.
C26_DoneOnlyWhenAllDone ==
    /\ am_doneCalls <= 1
    /\ WaitResolved =>
         /\ \A k \in 1..Len(am_taskStatus) : am_taskStatus[k].done
         /\ am_pending = {}
         /\ am_rejected = {}
    /\ \A k \in am_rejected : ~am_taskStatus[k].done
    /\ am_rejected # {} => ~WaitResolved /\ am_pc \in {"waiting", "exited"}
    /\ am_pc \in {"zip", "threw"} => am_doneCalls = 1

\* C26 witness: done() has been called once, after two tasks.
C26_Witness ==
    /\ am_doneCalls = 1
    /\ Len(am_taskStatus) = 2
    /\ am_taskStatus[1].done /\ am_taskStatus[2].done
    /\ am_pc = "zip"

\* One task is done, the promise of the other was rejected, and the status
\* loop is still waiting.
RejectedTaskKeepsWaiting ==
    /\ am_pc = "waiting"
    /\ am_rejected = {2}
    /\ am_taskStatus[1].done
    /\ am_armed = 1
    /\ am_dotCount = 3


\* C28: at most one recalc timer is armed at any time, it is the timer of
\* timeoutToken, and no timer is armed once done() has been called.
C28_OneTimer ==
    /\ am_armed <= 1
    /\ am_tokenArmed <=> (am_armed = 1)
    /\ WaitResolved => am_armed = 0
    /\ (am_pc = "waiting" /\ am_pending # {}) => am_armed = 1

\* C28 witness: of two tasks one has completed, which cleared the first timer
\* and armed another, and that timer is the only one.
C28_Witness ==
    /\ am_pc = "waiting"
    /\ Len(am_taskStatus) = 2
    /\ am_taskStatus[2].done /\ ~am_taskStatus[1].done
    /\ am_dotCount = 1
    /\ am_armed = 1


\* The scheduling of Node: an armed timer fires, a pending promise is settled
\* (the promises of processModule by the renderer, that of createZipFile by
\* the archive), and asyncMain takes its next step.
FairMain ==
    /\ WF_vars(AmTimer)
    /\ WF_vars(AmTaskDone \/ AmTaskRejected)
    /\ WF_vars(AmZip)

SpecMainFair == SpecMain /\ FairMain

DonePrinted == \E k \in 1..Len(am_out) : am_out[k] = <<"Done!">>

Waiting == am_pc = "waiting"

SomePromiseRejected == am_rejected # {}

TwoPartsDonePrinted ==
    /\ Len(am_parts) = 2
    /\ am_doneCalls = 1
    /\ am_dotCount = 0
    /\ DonePrinted

\* createZipFile failed after the wait was resolved: Done! is not printed.
ZipFailedAfterWait == am_pc = "threw" /\ WaitResolved /\ ~DonePrinted


-----------------------------------------------------------------------------
(* createZipFile in asyncMain (modules.ts lines 136-145, part_002 lines 38-70) *)

CreateZipFileCalls == { k \in 1..Len(am_calls) : am_calls[k][1] = "createZipFile" }

\* C29: createZipFile is called at most once, only with options.zip set, a
\* temporary directory created and options.dry not set, and only when every
\* processModule task has completed, so that ctx.stlFiles holds the file of
\* every part; the archive is handed one entry for each element of stlFiles,
\* named by its basename, and then the .scad file.
C29_ZipOrdering ==
    /\ Cardinality(CreateZipFileCalls) <= 1
    /\ CreateZipFileCalls = {} => am_archive = <<>>
    /\ CreateZipFileCalls # {} =>
         /\ am_options.zip /\ ~am_options.dry
         /\ am_tempDir # "null" /\ "tempDir" \in am_fs
         /\ am_pending = {} /\ am_rejected = {}
         /\ \A k \in 1..Len(am_taskStatus) : am_taskStatus[k].done
         /\ Len(am_stlFiles) = Len(am_parts)
         /\ Len(am_archive) = Len(am_stlFiles) + 1
         /\ \A k \in 1..Len(am_stlFiles) :
               /\ am_archive[k].file = am_stlFiles[k]
               /\ am_archive[k].name.extension = "stl"
               /\ \E j \in 1..Len(am_parts) : am_archive[k].name.name = am_parts[j]
         /\ \A j \in 1..Len(am_parts) :
               \E k \in 1..Len(am_stlFiles) : am_archive[k].name.name = am_parts[j]
         /\ am_archive[Len(am_archive)] = [file |-> ScadFilePath, name |-> "parts.scad"]

\* C29 witness: the archive of two parts whose tasks completed in the other
\* order: the second part's file, the first part's file, the .scad file.
C29_Witness ==
    /\ CreateZipFileCalls # {}
    /\ Len(am_parts) = 2
    /\ Len(am_archive) = 3
    /\ am_archive[1].name.name = am_parts[2]
    /\ am_archive[2].name.name = am_parts[1]
    /\ am_archive[3].name = "parts.scad"


-----------------------------------------------------------------------------
(* findOpenScad (modules.ts lines 175-211) *)

\* Values of JavaScript: undefined, and strings; a path is a string held as
\* its segments, the empty string as no segment.
undefined == [kind |-> "undefined", segments |-> <<>>]
Str(segments) == [kind |-> "string", segments |-> segments]

\* !!p: undefined and the empty string are falsy.
truthy(p) == p.kind = "string" /\ p.segments # <<>>

\* path.join of a path and two names.
pathJoin(val, folder, file) == Str(val.segments \o <<folder, file>>)

\* Lines 203-211.
winpath(env, name, subfolder) ==
    LET val == env[name]
    IN  IF truthy(val)
        THEN pathJoin(val, IF subfolder = undefined THEN "OpenSCAD" ELSE subfolder.segments[1],
                      "openscad.com")
        ELSE undefined

MacPath == Str(<<"/Applications/OpenSCAD.app/Contents/MacOS/OpenSCAD">>)
LinuxPath == Str(<<"/usr/bin/openscad">>)
Nightly == Str(<<"OpenSCAD (Nightly)">>)

\* filter(p => !!p) on an array.
RECURSIVE filterTruthy(_)
filterTruthy(array) ==
    IF array = <<>>
    THEN <<>>
    ELSE (IF truthy(Head(array)) THEN <<Head(array)>> ELSE <<>>)
         \o filterTruthy(Tail(array))

\* The list with the standard Windows paths before the Nightly ones.
candidateRootsMutant(env) ==
    filterTruthy(<< env["OPENSCADPATH"],
                    winpath(env, "ProgramFiles", undefined),
                    winpath(env, "ProgramFiles(x86)", undefined),
                    winpath(env, "ProgramFiles", Nightly),
                    winpath(env, "ProgramFiles(x86)", Nightly),
                    MacPath,
                    LinuxPath >>)

\* Lines 176-188.
candidateRoots(env) ==
    filterTruthy(<< env["OPENSCADPATH"],
                    winpath(env, "ProgramFiles", Nightly),
                    winpath(env, "ProgramFiles(x86)", Nightly),
                    winpath(env, "ProgramFiles", undefined),
                    winpath(env, "ProgramFiles(x86)", undefined),
                    MacPath,
                    LinuxPath >>)

\* The environments: OPENSCADPATH unset, empty or set, and each of the
\* Windows variables unset or set.
FindEnvironments ==
    { [name \in {"OPENSCADPATH", "ProgramFiles", "ProgramFiles(x86)"} |->
          IF name = "OPENSCADPATH" THEN own
          ELSE IF name = "ProgramFiles" THEN programFiles ELSE programFilesX86] :
        own \in {undefined, Str(<<>>), Str(<<"D:", "tools", "openscad.exe">>)},
        programFiles \in {undefined, Str(<<"C:", "Program Files">>)},
        programFilesX86 \in {undefined, Str(<<"C:", "Program Files (x86)">>)} }

\* Every path findOpenScad can ask for.
FindPaths ==
    { Str(<<"D:", "tools", "openscad.exe">>),
      Str(<<"C:", "Program Files", "OpenSCAD (Nightly)", "openscad.com">>),
      Str(<<"C:", "Program Files (x86)", "OpenSCAD (Nightly)", "openscad.com">>),
      Str(<<"C:", "Program Files", "OpenSCAD", "openscad.com">>),
      Str(<<"C:", "Program Files (x86)", "OpenSCAD", "openscad.com">>),
      MacPath, LinuxPath }

InitFind ==
    /\ fo_env \in FindEnvironments
    /\ fo_stat \in SUBSET FindPaths
    /\ fo_candidateRoots = <<>>
    /\ fo_i = 0
    /\ fo_result = undefined
    /\ fo_err = <<>>
    /\ fo_pc = "start"
    /\ IdleRay /\ IdleOut /\ IdleSil /\ IdleMv /\ IdleStl /\ IdleParts /\ IdleMain
    /\ IdleCam /\ IdleView /\ IdleCentroid

\* Lines 176-188: the candidates.
FoCandidateRoots ==
    /\ fo_pc = "start"
    /\ fo_candidateRoots' = candidateRoots(fo_env)
    /\ fo_i' = 1
    /\ fo_pc' = "loop"
    /\ UNCHANGED <<fo_env, fo_stat, fo_result, fo_err>>
    /\ UNCHANGED notFind

\* Lines 190-197: fs.stat of the next candidate; it is returned when stat
\* finds it, and passed over when stat fails.
FoStat ==
    /\ fo_pc = "loop"
    /\ fo_i <= Len(fo_candidateRoots)
    /\ IF fo_candidateRoots[fo_i] \in fo_stat
       THEN /\ fo_result' = fo_candidateRoots[fo_i]
            /\ fo_pc' = "returned"
            /\ fo_i' = fo_i
       ELSE /\ fo_i' = fo_i + 1
            /\ UNCHANGED <<fo_result, fo_pc>>
    /\ UNCHANGED <<fo_env, fo_stat, fo_candidateRoots, fo_err>>
    /\ UNCHANGED notFind

\* Lines 199-200: no candidate was found.
FoExit ==
    /\ fo_pc = "loop"
    /\ fo_i > Len(fo_candidateRoots)
    /\ fo_err' = Append(fo_err, "Unable to find OpenSCAD; set OPENSCADPATH environment variable")
    /\ fo_pc' = "exited"
    /\ UNCHANGED <<fo_env, fo_stat, fo_candidateRoots, fo_i, fo_result>>
    /\ UNCHANGED notFind

NextFind == FoCandidateRoots \/ FoStat \/ FoExit

SpecFind == InitFind /\ [][NextFind]_vars

\* The candidates in the order of priority, those of a variable that is not
\* set left out.
SetIn(name) == fo_env[name] # undefined /\ fo_env[name] # Str(<<>>)

Priority ==
    (IF SetIn("OPENSCADPATH") THEN <<fo_env["OPENSCADPATH"]>> ELSE <<>>)
    \o (IF SetIn("ProgramFiles")
        THEN <<Str(fo_env["ProgramFiles"].segments \o <<"OpenSCAD (Nightly)", "openscad.com">>)>>
        ELSE <<>>)
    \o (IF SetIn("ProgramFiles(x86)")
        THEN <<Str(fo_env["ProgramFiles(x86)"].segments
                   \o <<"OpenSCAD (Nightly)", "openscad.com">>)>>
        ELSE <<>>)
    \o (IF SetIn("ProgramFiles")
        THEN <<Str(fo_env["ProgramFiles"].segments \o <<"OpenSCAD", "openscad.com">>)>>
        ELSE <<>>)
    \o (IF SetIn("ProgramFiles(x86)")
        THEN <<Str(fo_env["ProgramFiles(x86)"].segments \o <<"OpenSCAD", "openscad.com">>)>>
        ELSE <<>>)
    \o <<MacPath, LinuxPath>>

Existing == { k \in 1..Len(Priority) : Priority[k] \in fo_stat }

\* C30: findOpenScad returns the first candidate that exists, in the order
\* OPENSCADPATH, Windows Nightly (ProgramFiles, ProgramFiles(x86)), Windows
\* standard (ProgramFiles, ProgramFiles(x86)), macOS bundle,
\* /usr/bin/openscad, the candidates of unset variables left out; it never
\* returns a path that stat did not find; and it ends the process, with an
\* error, exactly when no candidate exists.
C30_FirstExistingCandidate ==
    /\ fo_pc = "returned" =>
         /\ fo_result \in fo_stat
         /\ Existing # {}
         /\ \E k \in Existing : fo_result = Priority[k] /\ \A j \in Existing : k <= j
         /\ fo_err = <<>>
    /\ fo_pc = "exited" =>
         /\ Existing = {}
         /\ fo_result = undefined
         /\ Len(fo_err) = 1
    /\ (fo_pc = "loop" /\ Existing = {}) => fo_result = undefined

\* C30 witness: OPENSCADPATH is empty and both Windows variables are set; the
\* Nightly path of ProgramFiles(x86) is returned, the standard path of
\* ProgramFiles and /usr/bin/openscad exist too, and the Nightly path of
\* ProgramFiles does not.
C30_Witness ==
    /\ fo_pc = "returned"
    /\ fo_env["OPENSCADPATH"] = Str(<<>>)
    /\ fo_result = Str(<<"C:", "Program Files (x86)", "OpenSCAD (Nightly)", "openscad.com">>)
    /\ Str(<<"C:", "Program Files", "OpenSCAD", "openscad.com">>) \in fo_stat
    /\ LinuxPath \in fo_stat
    /\ fo_i = 2

\* No candidate exists: the process has ended with the error.
NoCandidateExits ==
    /\ fo_pc = "exited"
    /\ fo_stat = {}
    /\ Len(fo_candidateRoots) = 7

====
